---- MODULE Spec2Model ----
(***************************************************************************)
(* Model of github.com/senseyeio/mbgo: the JSON codec of the document      *)
(* model (Imposter, Stub, Predicate, Response and the protocol payloads)   *)
(* and the client operations built on it.                                  *)
(*                                                                         *)
(* Representation.                                                         *)
(*  - JSON text is a tree: JNull, JStr(s), JNum(n), JBool(b), JArr(seq),    *)
(*    JObj(f) with f a function from keys to JSON trees.  Object key order  *)
(*    is not represented.                                                  *)
(*  - A Go map is a function from its keys; a nil map and an empty map are  *)
(*    both the empty function (len() = 0 for either).  A Go slice is a      *)
(*    sequence; nil and empty slices are both << >>.                       *)
(*  - A Go interface{} slot holding one of several dynamic types is a      *)
(*    one-field record whose field name is the dynamic type.               *)
(*  - A payload held by pointer (&HTTPRequest{}) and one held by value are  *)
(*    the same record: both satisfy json.Marshaler.                        *)
(*  - A requestFrom string is the sequence of its ":"-separated parts, so   *)
(*    strings.Split and strings.Join are sequence operations.              *)
(***************************************************************************)
EXTENDS Integers, Sequences, FiniteSets, TLC

VARIABLES
  pc,      \* where the run is
  goval,   \* the Go value the caller holds (the input of MarshalJSON)
  wire,    \* the JSON text last encoded or received
  out,     \* [err, val] of the last UnmarshalJSON: the error and the receiver after it
  call,    \* the client operation in progress, with its arguments
  request, \* the request NewRequest built
  response, \* the response Do returned
  calls,   \* how many times the network call was issued
  closed,  \* how many times the response body was closed
  ret,     \* what the client operation returned
  ctx,     \* the context.Context the caller passed to the operation
  baseURL, \* rest.Client.baseURL, shared by the operations of one Client
  parked   \* the locals of the other goroutine calling the same Client

vars == <<pc, goval, wire, out, call, request, response, calls, closed, ret, ctx, baseURL, parked>>
codecVars == <<goval, wire, out>>
clientVars == <<call, request, response, calls, closed, ret, ctx, baseURL, parked>>

(***************************************************************************)
(* Bounds of the model.                                                    *)
(***************************************************************************)
\* longest list of values under one query/header key
MaxVals == 2

(***************************************************************************)
(* JSON trees.                                                             *)
(***************************************************************************)
JNull == [jnull |-> TRUE]
JStr(s) == [jstr |-> s]
JNum(n) == [jnum |-> n]
JBool(b) == [jbool |-> b]
JArr(s) == [jarr |-> s]
JObj(f) == [jobj |-> f]

IsNull(j) == DOMAIN j = {"jnull"}
IsStr(j) == DOMAIN j = {"jstr"}
IsNum(j) == DOMAIN j = {"jnum"}
IsBool(j) == DOMAIN j = {"jbool"}
IsArr(j) == DOMAIN j = {"jarr"}
IsObj(j) == DOMAIN j = {"jobj"}

\* the object with the members of S, a set of <<key, value>> pairs with distinct keys
MkObj(S) == [k \in {p[1] : p \in S} |-> (CHOOSE p \in S : p[1] = k)[2]]
\* a struct field tagged omitempty: emitted unless the condition says it is empty
Opt(present, k, v) == IF present THEN {<<k, v>>} ELSE {}
\* delete(m, k)
DeleteKey(f, k) == [x \in DOMAIN f \ {k} |-> f[x]]
\* the member k of object f, JNull when absent (json leaves the field at its zero value)
Get(f, k) == IF k \in DOMAIN f THEN f[k] ELSE JNull

EmptyMap == << >>

(***************************************************************************)
(* error values                                                            *)
(***************************************************************************)
NoErr == "<nil>"
ErrJSON == "json: cannot unmarshal"
ErrInvalidIP == "invalid IP address"
ErrQueryKey == "invalid query key type"
ErrSingleOperator == "predicate should only have a single operator"
ErrUnsupportedProtocol == "unsupported protocol"
ErrPredicateRequestType == "unsupported predicate request type"
\* the run-time panic of a method call on a nil reflect.Type; it is carried
\* in the err slot up to the goroutine, no caller recovering from it
PanicNilType == "invalid memory address or nil pointer dereference"
ErrResponseValue == "response value must implement json.Marshaler"
ErrNilBehaviors == "json: Unmarshal(nil *mbgo.Behaviors)"

(***************************************************************************)
(* net.IP and parseClientSocket.                                           *)
(***************************************************************************)
NoIP == "<nil>"
IPv4Docker == "172.17.0.1"
IPv6Loopback == "::1"
IPs == {IPv4Docker, IPv6Loopback}

\* net.ParseIP on a string given as its ":"-separated parts; NoIP when it is no address
ParseIP(parts) ==
  CASE parts = <<"172.17.0.1">> -> IPv4Docker
    [] parts = <<"", "", "ffff", "172.17.0.1">> -> IPv4Docker
    [] parts = <<"", "", "1">> -> IPv6Loopback
    [] OTHER -> NoIP

\* net.IP.String, as ":"-separated parts
IPString(ip) ==
  CASE ip = IPv4Docker -> <<"172.17.0.1">>
    [] ip = IPv6Loopback -> <<"", "", "1">>
    [] OTHER -> <<"<nil>">>

\* a parseClientSocket that takes the whole string for the address
parseClientSocketWhole(s) ==
  LET ip == ParseIP(s)
  IN [ip |-> ip, err |-> IF ip = NoIP THEN ErrInvalidIP ELSE NoErr]

parseClientSocket(s) ==
  LET parts == s
      ipStr == SubSeq(parts, 1, Len(parts) - 1)
      ip == ParseIP(ipStr)
  IN [ip |-> ip, err |-> IF ip = NoIP THEN ErrInvalidIP ELSE NoErr]

(***************************************************************************)
(* Query and header maps.                                                  *)
(***************************************************************************)
toMapValuesSingleOnly(q) ==
  [k \in {x \in DOMAIN q : Len(q[x]) > 0} |-> JStr(q[k][1])]

toMapValues(q) ==
  [k \in {x \in DOMAIN q : Len(q[x]) > 0} |->
     IF Len(q[k]) = 1
     THEN JStr(q[k][1])
     ELSE JArr([i \in 1..Len(q[k]) |-> JStr(q[k][i])])]

\* one entry of the decoded map: a string, or an array of strings
ValidMapValue(v) ==
  \/ IsStr(v)
  \/ IsArr(v) /\ \A i \in 1..Len(v.jarr) : IsStr(v.jarr[i])

\* a decoder that keeps one value per key
fromMapValuesFirstOnly(q) ==
  IF \E k \in DOMAIN q : ~ValidMapValue(q[k])
  THEN [val |-> EmptyMap, err |-> ErrQueryKey]
  ELSE [val |-> [k \in DOMAIN q |->
                   IF IsStr(q[k]) THEN <<q[k].jstr>>
                   ELSE IF Len(q[k].jarr) = 0 THEN << >> ELSE <<q[k].jarr[1].jstr>>],
        err |-> NoErr]

\* The two error texts of the source (invalid key type, invalid array subtype)
\* are one error value here.
fromMapValues(q) ==
  IF \E k \in DOMAIN q : ~ValidMapValue(q[k])
  THEN [val |-> EmptyMap, err |-> ErrQueryKey]
  ELSE [val |-> [k \in DOMAIN q |->
                   IF IsStr(q[k]) THEN <<q[k].jstr>>
                   ELSE [i \in 1..Len(q[k].jarr) |-> q[k].jarr[i].jstr]],
        err |-> NoErr]

(***************************************************************************)
(* encoding/json decoding a JSON object into a DTO struct: a member of the  *)
(* wrong JSON type is an UnmarshalTypeError, null and absent members leave  *)
(* the field at its zero value.                                            *)
(***************************************************************************)
EmptySock == <<"">>

BadStr(f, k) == k \in DOMAIN f /\ ~IsStr(f[k]) /\ ~IsNull(f[k])
BadNum(f, k) == k \in DOMAIN f /\ ~IsNum(f[k]) /\ ~IsNull(f[k])
BadObj(f, k) == k \in DOMAIN f /\ ~IsObj(f[k]) /\ ~IsNull(f[k])
BadArr(f, k) == k \in DOMAIN f /\ ~IsArr(f[k]) /\ ~IsNull(f[k])

StrField(f, k) == IF k \in DOMAIN f /\ IsStr(f[k]) THEN f[k].jstr ELSE ""
SockField(f, k) == IF k \in DOMAIN f /\ IsStr(f[k]) THEN f[k].jstr ELSE EmptySock
NumField(f, k) == IF k \in DOMAIN f /\ IsNum(f[k]) THEN f[k].jnum ELSE 0
MapField(f, k) == IF k \in DOMAIN f /\ IsObj(f[k]) THEN f[k].jobj ELSE EmptyMap
ArrField(f, k) == IF k \in DOMAIN f /\ IsArr(f[k]) THEN f[k].jarr ELSE << >>

\* the members of the JSON value b when it is an object (null decodes as no members)
Members(b) == IF IsObj(b) THEN b.jobj ELSE EmptyMap

(***************************************************************************)
(* HTTPRequest                                                             *)
(***************************************************************************)
ZeroHTTPRequest ==
  [RequestFrom |-> NoIP, Method |-> "", Path |-> "", Query |-> EmptyMap,
   Headers |-> EmptyMap, Body |-> JNull, Timestamp |-> ""]

HTTPRequestMarshalJSON(r) ==
  JObj(MkObj(
    Opt(r.RequestFrom # NoIP, "requestFrom", JStr(IPString(r.RequestFrom)))
    \cup Opt(r.Method # "", "method", JStr(r.Method))
    \cup Opt(r.Path # "", "path", JStr(r.Path))
    \cup Opt(DOMAIN toMapValues(r.Query) # {}, "query", JObj(toMapValues(r.Query)))
    \cup Opt(DOMAIN toMapValues(r.Headers) # {}, "headers", JObj(toMapValues(r.Headers)))
    \cup Opt(~IsNull(r.Body), "body", r.Body)
    \cup Opt(r.Timestamp # "", "timestamp", JStr(r.Timestamp))))

httpRequestDTOError(b) ==
  LET f == Members(b) IN
  \/ ~IsObj(b) /\ ~IsNull(b)
  \/ BadStr(f, "requestFrom") \/ BadStr(f, "method") \/ BadStr(f, "path")
  \/ BadObj(f, "query") \/ BadObj(f, "headers") \/ BadStr(f, "timestamp")

\* the receiver r after the call, and the error returned
HTTPRequestUnmarshalJSON(b, r) ==
  LET f == Members(b)
      from == SockField(f, "requestFrom")
      sock == parseClientSocket(from)
      r1 == IF from # EmptySock THEN [r EXCEPT !.RequestFrom = sock.ip] ELSE r
      r2 == [r1 EXCEPT !.Method = StrField(f, "method"), !.Path = StrField(f, "path")]
      query == fromMapValues(MapField(f, "query"))
      r3 == [r2 EXCEPT !.Query = query.val]
      headers == fromMapValues(MapField(f, "headers"))
      r4 == [r3 EXCEPT !.Headers = headers.val]
      r5 == [r4 EXCEPT !.Body = Get(f, "body"), !.Timestamp = StrField(f, "timestamp")]
  IN CASE httpRequestDTOError(b) -> [val |-> r, err |-> ErrJSON]
       [] from # EmptySock /\ sock.err # NoErr -> [val |-> r1, err |-> NoErr]
       [] query.err # NoErr -> [val |-> r3, err |-> NoErr]
       [] headers.err # NoErr -> [val |-> r4, err |-> NoErr]
       [] OTHER -> [val |-> r5, err |-> NoErr]

(***************************************************************************)
(* HTTPResponse                                                            *)
(***************************************************************************)
ZeroHTTPResponse ==
  [StatusCode |-> 0, Headers |-> EmptyMap, Body |-> JNull, Mode |-> ""]

HTTPResponseMarshalJSON(r) ==
  JObj(MkObj(
    Opt(r.StatusCode # 0, "statusCode", JNum(r.StatusCode))
    \cup Opt(DOMAIN toMapValues(r.Headers) # {}, "headers", JObj(toMapValues(r.Headers)))
    \cup Opt(~IsNull(r.Body), "body", r.Body)
    \cup Opt(r.Mode # "", "_mode", JStr(r.Mode))))

httpResponseDTOError(b) ==
  LET f == Members(b) IN
  \/ ~IsObj(b) /\ ~IsNull(b)
  \/ BadNum(f, "statusCode") \/ BadObj(f, "headers") \/ BadStr(f, "_mode")

HTTPResponseUnmarshalJSON(b, r) ==
  LET f == Members(b)
      r1 == [r EXCEPT !.StatusCode = NumField(f, "statusCode")]
      headers == fromMapValues(MapField(f, "headers"))
      r2 == [r1 EXCEPT !.Headers = headers.val]
      r3 == [r2 EXCEPT !.Body = Get(f, "body"), !.Mode = StrField(f, "_mode")]
  IN CASE httpResponseDTOError(b) -> [val |-> r, err |-> ErrJSON]
       [] headers.err # NoErr -> [val |-> r2, err |-> headers.err]
       [] OTHER -> [val |-> r3, err |-> NoErr]

(***************************************************************************)
(* TCPRequest, TCPResponse                                                 *)
(***************************************************************************)
ZeroTCPRequest == [RequestFrom |-> NoIP, Data |-> ""]

TCPRequestMarshalJSON(r) ==
  JObj(MkObj(
    Opt(r.RequestFrom # NoIP, "requestFrom", JStr(IPString(r.RequestFrom)))
    \cup Opt(r.Data # "", "data", JStr(r.Data))))

tcpRequestDTOError(b) ==
  LET f == Members(b) IN
  \/ ~IsObj(b) /\ ~IsNull(b)
  \/ BadStr(f, "requestFrom") \/ BadStr(f, "data")

TCPRequestUnmarshalJSON(b, r) ==
  LET f == Members(b)
      from == SockField(f, "requestFrom")
      sock == parseClientSocket(from)
      r1 == IF from # EmptySock THEN [r EXCEPT !.RequestFrom = sock.ip] ELSE r
      r2 == [r1 EXCEPT !.Data = StrField(f, "data")]
  IN CASE tcpRequestDTOError(b) -> [val |-> r, err |-> ErrJSON]
       [] from # EmptySock /\ sock.err # NoErr -> [val |-> r1, err |-> sock.err]
       [] OTHER -> [val |-> r2, err |-> NoErr]

ZeroTCPResponse == [Data |-> ""]

TCPResponseMarshalJSON(r) == JObj(MkObj({<<"data", JStr(r.Data)>>}))

tcpResponseDTOError(b) ==
  LET f == Members(b) IN (~IsObj(b) /\ ~IsNull(b)) \/ BadStr(f, "data")

TCPResponseUnmarshalJSON(b, r) ==
  LET f == Members(b)
  IN IF tcpResponseDTOError(b)
     THEN [val |-> r, err |-> ErrJSON]
     ELSE [val |-> [r EXCEPT !.Data = StrField(f, "data")], err |-> NoErr]

(***************************************************************************)
(* Predicate.  Request is an interface{}: [nil], [raw] (json.RawMessage),   *)
(* [http], [tcp] (request payloads), [preds] ([]Predicate), [pred]          *)
(* (Predicate), [str] (string) or [other] (any other Go type).  JSONPath    *)
(* is a *JSONPath: [nil] or [Selector].                                    *)
(***************************************************************************)
paramCaseSensitive == "caseSensitive"
paramExcept == "except"
paramJSONPath == "jsonpath"
paramXPath == "xpath"
\* a decoder that knows no modifier key
ReservedKeysNone == {}

ReservedKeys == {paramCaseSensitive, paramExcept, paramJSONPath, paramXPath}

NilValue == [nil |-> TRUE]
IsNil(v) == DOMAIN v = {"nil"}
IsRaw(v) == DOMAIN v = {"raw"}

ZeroPredicate ==
  [Operator |-> "", Request |-> NilValue, JSONPath |-> NilValue, CaseSensitive |-> FALSE]

\* the outcomes of a list of steps, each a set of [err, val]: the first error
\* ends the list, otherwise the values in order
RECURSIVE SeqOutcomes(_)
SeqOutcomes(sets) ==
  IF sets = << >> THEN {[err |-> NoErr, val |-> << >>]}
  ELSE UNION {
         IF o.err # NoErr THEN {[err |-> o.err, val |-> << >>]}
         ELSE {[err |-> t.err, val |-> IF t.err = NoErr THEN <<o.val>> \o t.val ELSE << >>] :
                 t \in SeqOutcomes(Tail(sets))}
         : o \in Head(sets)}

\* every order in which a range over a Go map can visit the keys K
RECURSIVE Perms(_)
Perms(K) ==
  IF K = {} THEN {<< >>}
  ELSE UNION {{<<k>> \o t : t \in Perms(K \ {k})} : k \in K}

RECURSIVE PredicateMarshalJSON(_)
PredicateMarshalJSON(p) ==
  LET req == p.Request
      subs == IF DOMAIN req = {"preds"}
              THEN [i \in 1..Len(req.preds) |-> PredicateMarshalJSON(req.preds[i])]
              ELSE << >>
      failed == {i \in 1..Len(subs) : subs[i].err # NoErr}
      first == CHOOSE i \in failed : \A j \in failed : i <= j
      payload ==
        CASE DOMAIN req = {"http"} -> [err |-> NoErr, json |-> HTTPRequestMarshalJSON(req.http)]
          [] DOMAIN req = {"tcp"} -> [err |-> NoErr, json |-> TCPRequestMarshalJSON(req.tcp)]
          [] DOMAIN req = {"raw"} -> [err |-> NoErr, json |-> req.raw]
          [] DOMAIN req = {"pred"} -> PredicateMarshalJSON(req.pred)
          [] DOMAIN req = {"preds"} ->
               IF failed # {} THEN [err |-> subs[first].err, json |-> JNull]
               ELSE [err |-> NoErr, json |-> JArr([i \in 1..Len(subs) |-> subs[i].json])]
          [] DOMAIN req = {"str"} -> [err |-> NoErr, json |-> JStr(req.str)]
          [] DOMAIN req = {"nil"} -> [err |-> PanicNilType, json |-> JNull]
          [] OTHER -> [err |-> ErrPredicateRequestType, json |-> JNull]
      op == (p.Operator :> payload.json)
      withPath == IF IsNil(p.JSONPath) THEN op
                  ELSE (paramJSONPath :> JObj("selector" :> JStr(p.JSONPath.Selector))) @@ op
      withCase == IF p.CaseSensitive THEN (paramCaseSensitive :> JBool(TRUE)) @@ withPath
                  ELSE withPath
  IN IF payload.err # NoErr THEN [err |-> payload.err, json |-> JNull]
     ELSE [err |-> NoErr, json |-> JObj(withCase)]

RECURSIVE PredicateUnmarshalJSON(_, _), predicateKey(_, _), predicateLoop(_, _, _), predicateList(_)

\* json.Unmarshal of a JSON array into a []Predicate: UnmarshalJSON is called on
\* a fresh Predicate for every element, a null element included
predicateList(arr) ==
  SeqOutcomes([i \in 1..Len(arr) |-> PredicateUnmarshalJSON(arr[i], ZeroPredicate)])

\* a switch on key without the case of "inject"
predicateKeyDeferAll(key, b) ==
  CASE key \in {"and", "or"} ->
         IF IsArr(b)
         THEN {[err |-> o.err, val |-> [preds |-> o.val]] : o \in predicateList(b.jarr)}
         ELSE IF IsNull(b) THEN {[err |-> NoErr, val |-> [preds |-> << >>]]}
         ELSE {[err |-> ErrJSON, val |-> NilValue]}
    [] key = "not" ->
         {[err |-> o.err, val |-> [pred |-> o.val]] : o \in PredicateUnmarshalJSON(b, ZeroPredicate)}
    [] OTHER -> {[err |-> NoErr, val |-> [raw |-> b]]}

\* the body of the switch on key: the Request it assigns, or the error it returns
predicateKey(key, b) ==
  CASE key = "inject" ->
         IF IsStr(b) THEN {[err |-> NoErr, val |-> [str |-> b.jstr]]}
         ELSE IF IsNull(b) THEN {[err |-> NoErr, val |-> [str |-> ""]]}
         ELSE {[err |-> ErrJSON, val |-> NilValue]}
    [] key \in {"and", "or"} ->
         IF IsArr(b)
         THEN {[err |-> o.err, val |-> [preds |-> o.val]] : o \in predicateList(b.jarr)}
         ELSE IF IsNull(b) THEN {[err |-> NoErr, val |-> [preds |-> << >>]]}
         ELSE {[err |-> ErrJSON, val |-> NilValue]}
    [] key = "not" ->
         {[err |-> o.err, val |-> [pred |-> o.val]] : o \in PredicateUnmarshalJSON(b, ZeroPredicate)}
    [] OTHER -> {[err |-> NoErr, val |-> [raw |-> b]]}

\* the range over the remaining keys of the DTO, visited in the given order
predicateLoop(order, dto, p) ==
  IF order = << >> THEN {[err |-> NoErr, val |-> p]}
  ELSE LET key == Head(order)
           p1 == [p EXCEPT !.Operator = key]
       IN UNION {
            IF o.err # NoErr THEN {[err |-> o.err, val |-> p1]}
            ELSE predicateLoop(Tail(order), dto, [p1 EXCEPT !.Request = o.val])
            : o \in predicateKey(key, dto[key])}

\* The set of outcomes [err, val] of p.UnmarshalJSON(b), val being the receiver
\* after the call: one outcome for every order the range over the map can take.
PredicateUnmarshalJSON(b, p) ==
  LET dto0 == Members(b)
      cs == Get(dto0, paramCaseSensitive)
      p1 == IF IsBool(cs) THEN [p EXCEPT !.CaseSensitive = cs.jbool] ELSE p
      jp == Get(dto0, paramJSONPath)
      p2 == IF paramJSONPath \notin DOMAIN dto0 THEN p1
            ELSE IF IsNull(jp) THEN [p1 EXCEPT !.JSONPath = NilValue]
            ELSE [p1 EXCEPT !.JSONPath = [Selector |-> StrField(Members(jp), "selector")]]
      dto == [k \in DOMAIN dto0 \ ReservedKeys |-> dto0[k]]
  IN CASE ~IsObj(b) /\ ~IsNull(b) -> {[err |-> ErrJSON, val |-> p]}
       [] paramCaseSensitive \in DOMAIN dto0 /\ ~IsBool(cs) /\ ~IsNull(cs) ->
            {[err |-> ErrJSON, val |-> p]}
       [] paramJSONPath \in DOMAIN dto0 /\ (BadObj(dto0, paramJSONPath) \/ BadStr(Members(jp), "selector")) ->
            {[err |-> ErrJSON, val |-> p1]}
       [] DOMAIN dto = {} -> {[err |-> ErrSingleOperator, val |-> p2]}
       [] OTHER -> UNION {predicateLoop(order, dto, p2) : order \in Perms(DOMAIN dto)}

(***************************************************************************)
(* Response.  Value is an interface{}: [nil], [raw], [httpresp], [tcpresp]  *)
(* or [other]; Behaviors is a *Behaviors: [nil] or [Wait].                 *)
(***************************************************************************)
keyBehaviors == "_behaviors"

ZeroResponse == [Type |-> "", Value |-> NilValue, Behaviors |-> NilValue]

BehaviorsMarshalJSON(bh) == JObj(MkObj(Opt(bh.Wait # 0, "wait", JNum(bh.Wait))))

ResponseMarshalJSON(r) ==
  LET v == r.Value
      payload ==
        CASE DOMAIN v = {"httpresp"} -> [err |-> NoErr, json |-> HTTPResponseMarshalJSON(v.httpresp)]
          [] DOMAIN v = {"tcpresp"} -> [err |-> NoErr, json |-> TCPResponseMarshalJSON(v.tcpresp)]
          [] DOMAIN v = {"raw"} -> [err |-> NoErr, json |-> v.raw]
          [] OTHER -> [err |-> ErrResponseValue, json |-> JNull]
      typ == (r.Type :> payload.json)
      dto == IF IsNil(r.Behaviors) THEN typ
             ELSE (keyBehaviors :> BehaviorsMarshalJSON(r.Behaviors)) @@ typ
  IN IF payload.err # NoErr THEN [err |-> payload.err, json |-> JNull]
     ELSE [err |-> NoErr, json |-> JObj(dto)]

\* the range over the remaining keys of the DTO, visited in the given order
RECURSIVE responseLoop(_, _, _)
responseLoop(order, dto, r) ==
  IF order = << >> THEN r
  ELSE responseLoop(Tail(order), dto,
                    [r EXCEPT !.Type = Head(order), !.Value = [raw |-> dto[Head(order)]]])

\* The set of outcomes [err, val] of r.UnmarshalJSON(b).  json.Unmarshal is
\* handed r.Behaviors itself, not its address: with a nil pointer it returns
\* an InvalidUnmarshalError whatever the JSON is.
ResponseUnmarshalJSON(b, r) ==
  LET dto0 == Members(b)
      bh == Get(dto0, keyBehaviors)
      r1 == IF keyBehaviors \in DOMAIN dto0 /\ IsObj(bh) /\ IsNum(Get(bh.jobj, "wait"))
            THEN [r EXCEPT !.Behaviors = [Wait |-> bh.jobj["wait"].jnum]]
            ELSE r
      dto == DeleteKey(dto0, keyBehaviors)
  IN CASE ~IsObj(b) /\ ~IsNull(b) -> {[err |-> ErrJSON, val |-> r]}
       [] keyBehaviors \in DOMAIN dto0 /\ IsNil(r.Behaviors) ->
            {[err |-> ErrNilBehaviors, val |-> r]}
       [] keyBehaviors \in DOMAIN dto0 /\ (BadObj(dto0, keyBehaviors) \/ BadNum(Members(bh), "wait")) ->
            {[err |-> ErrJSON, val |-> r]}
       [] OTHER -> {[err |-> NoErr, val |-> responseLoop(order, dto, r1)] : order \in Perms(DOMAIN dto)}

(***************************************************************************)
(* Stub                                                                    *)
(***************************************************************************)
ZeroStub == [Predicates |-> << >>, Responses |-> << >>]

\* the first error of a sequence of [err, json] results, NoErr when none failed
FirstErr(rs) ==
  LET failed == {i \in 1..Len(rs) : rs[i].err # NoErr}
  IN IF failed = {} THEN NoErr
     ELSE rs[CHOOSE i \in failed : \A j \in failed : i <= j].err

\* the stubDTO of the encoded predicates ps and the encoded responses rs
stubDTO(ps, rs) ==
  CASE FirstErr(ps) # NoErr -> [err |-> FirstErr(ps), json |-> JNull]
    [] FirstErr(rs) # NoErr -> [err |-> FirstErr(rs), json |-> JNull]
    [] OTHER ->
         [err |-> NoErr,
          json |-> JObj(MkObj(
            Opt(Len(ps) > 0, "predicates", JArr([i \in 1..Len(ps) |-> ps[i].json]))
            \cup {<<"responses", JArr([i \in 1..Len(rs) |-> rs[i].json])>>}))]

StubMarshalJSON(s) ==
  stubDTO([i \in 1..Len(s.Predicates) |-> PredicateMarshalJSON(s.Predicates[i])],
          [i \in 1..Len(s.Responses) |-> ResponseMarshalJSON(s.Responses[i])])

\* json.Unmarshal of a JSON array into a []Response: every element is a fresh Response
\* a decoding of the responses that fills the slice from its end
responseListReversed(arr) ==
  SeqOutcomes([i \in 1..Len(arr) |-> ResponseUnmarshalJSON(arr[Len(arr) + 1 - i], ZeroResponse)])

responseList(arr) ==
  SeqOutcomes([i \in 1..Len(arr) |-> ResponseUnmarshalJSON(arr[i], ZeroResponse)])

\* The set of outcomes [err, val] of s.UnmarshalJSON(b); the members are taken
\* in the order the encoder writes them, predicates before responses.
StubUnmarshalJSON(b, s) ==
  LET f == Members(b) IN
  IF (~IsObj(b) /\ ~IsNull(b)) \/ BadArr(f, "predicates") \/ BadArr(f, "responses")
  THEN {[err |-> ErrJSON, val |-> s]}
  ELSE UNION {
         IF ps.err # NoErr THEN {[err |-> ps.err, val |-> s]}
         ELSE {IF rs.err # NoErr THEN [err |-> rs.err, val |-> s]
               ELSE [err |-> NoErr, val |-> [Predicates |-> ps.val, Responses |-> rs.val]]
                 : rs \in responseList(ArrField(f, "responses"))}
         : ps \in predicateList(ArrField(f, "predicates"))}

(***************************************************************************)
(* Imposter.  DefaultResponse is an interface{}: [nil], [httpresp],         *)
(* [tcpresp] or [other]; Requests holds [http] or [tcp] payloads.           *)
(***************************************************************************)
ZeroImposter ==
  [Port |-> 0, Proto |-> "", Name |-> "", RecordRequests |-> FALSE, Requests |-> << >>,
   RequestCount |-> 0, AllowCORS |-> FALSE, DefaultResponse |-> NilValue, Stubs |-> << >>]

ErrDefaultResponse == "default response must implemented json.Marshaler"

\* the json.Marshaler assertion and the encoding of DefaultResponse, an interface{}
defaultResponseJSON(d) ==
  CASE IsNil(d) -> [err |-> NoErr, json |-> JNull]
    [] DOMAIN d = {"httpresp"} -> [err |-> NoErr, json |-> HTTPResponseMarshalJSON(d.httpresp)]
    [] DOMAIN d = {"tcpresp"} -> [err |-> NoErr, json |-> TCPResponseMarshalJSON(d.tcpresp)]
    [] OTHER -> [err |-> ErrDefaultResponse, json |-> JNull]

\* the imposterRequestDTO of imp, def and stubs being its encoded default
\* response and its encoded stubs
imposterRequestDTO(imp, def, stubs) ==
  CASE def.err # NoErr -> [err |-> def.err, json |-> JNull]
    [] FirstErr(stubs) # NoErr -> [err |-> FirstErr(stubs), json |-> JNull]
    [] OTHER ->
         [err |-> NoErr,
          json |-> JObj(MkObj(
            {<<"protocol", JStr(imp.Proto)>>}
            \cup Opt(imp.Port # 0, "port", JNum(imp.Port))
            \cup Opt(imp.Name # "", "name", JStr(imp.Name))
            \cup Opt(imp.RecordRequests, "recordRequests", JBool(TRUE))
            \cup Opt(imp.AllowCORS, "allowCORS", JBool(TRUE))
            \cup Opt(~IsNil(imp.DefaultResponse), "defaultResponse", def.json)
            \cup Opt(Len(stubs) > 0, "stubs", JArr([i \in 1..Len(stubs) |-> stubs[i].json]))))]

ImposterMarshalJSON(imp) ==
  imposterRequestDTO(imp, defaultResponseJSON(imp.DefaultResponse),
                     [i \in 1..Len(imp.Stubs) |-> StubMarshalJSON(imp.Stubs[i])])

\* a lookup that falls back to the HTTP payload
getRequestUnmarshalerDefaultHTTP(proto) ==
  CASE proto = "tcp" -> [err |-> NoErr, um |-> "tcp"]
    [] OTHER -> [err |-> NoErr, um |-> "http"]

getRequestUnmarshaler(proto) ==
  CASE proto = "http" -> [err |-> NoErr, um |-> "http"]
    [] proto = "tcp" -> [err |-> NoErr, um |-> "tcp"]
    [] OTHER -> [err |-> ErrUnsupportedProtocol, um |-> "nil"]

getResponseUnmarshaler(proto) ==
  CASE proto = "http" -> [err |-> NoErr, um |-> "http"]
    [] proto = "tcp" -> [err |-> NoErr, um |-> "tcp"]
    [] OTHER -> [err |-> ErrUnsupportedProtocol, um |-> "nil"]

\* the outcome o of um.UnmarshalJSON as the outcome of the step: the value is
\* the payload um of the given kind
asPayload(kind, o) ==
  [err |-> o.err,
   val |-> CASE kind = "http" -> [http |-> o.val]
             [] kind = "tcp" -> [tcp |-> o.val]
             [] kind = "httpresp" -> [httpresp |-> o.val]
             [] OTHER -> [tcpresp |-> o.val]]

\* um.UnmarshalJSON(raw) on the fresh payload getRequestUnmarshaler returned
unmarshalRequest(proto, raw) ==
  CASE getRequestUnmarshaler(proto).err # NoErr ->
         [err |-> getRequestUnmarshaler(proto).err, val |-> NilValue]
    [] getRequestUnmarshaler(proto).um = "http" ->
         asPayload("http", HTTPRequestUnmarshalJSON(raw, ZeroHTTPRequest))
    [] OTHER -> asPayload("tcp", TCPRequestUnmarshalJSON(raw, ZeroTCPRequest))

unmarshalResponse(proto, raw) ==
  CASE getResponseUnmarshaler(proto).err # NoErr ->
         [err |-> getResponseUnmarshaler(proto).err, val |-> NilValue]
    [] getResponseUnmarshaler(proto).um = "http" ->
         asPayload("httpresp", HTTPResponseUnmarshalJSON(raw, ZeroHTTPResponse))
    [] OTHER -> asPayload("tcpresp", TCPResponseUnmarshalJSON(raw, ZeroTCPResponse))

\* p after the json.RawMessage case, leaf being the outcome of the payload decoder
rawCase(p, leaf) ==
  IF leaf.err # NoErr THEN [err |-> leaf.err, val |-> p]
  ELSE [err |-> NoErr, val |-> [p EXCEPT !.Request = leaf.val]]

\* p after the Predicate case, sub being the outcome of the recursion.  The
\* type switch binds v to a copy of the Predicate held by the interface and the
\* recursion works on &v: what it assigns to v.Request is lost, what it writes
\* through a slice v shares is kept.
predicateCase(p, sub) ==
  IF sub.err # NoErr THEN [err |-> sub.err, val |-> p]
  ELSE [err |-> NoErr,
        val |-> IF IsRaw(p.Request.pred.Request) THEN p
                ELSE [p EXCEPT !.Request = [pred |-> sub.val]]]

\* p after the []Predicate case, subs being the outcomes of the recursions
sliceCase(p, subs) ==
  IF FirstErr(subs) # NoErr THEN [err |-> FirstErr(subs), val |-> p]
  ELSE [err |-> NoErr,
        val |-> [p EXCEPT !.Request = [preds |-> [i \in 1..Len(subs) |-> subs[i].val]]]]

\* [err, val]: the Predicate p points to after unmarshalPredicateRecurse(proto, p)
RECURSIVE unmarshalPredicateRecurse(_, _)
unmarshalPredicateRecurse(proto, p) ==
  CASE IsRaw(p.Request) -> rawCase(p, unmarshalRequest(proto, p.Request.raw))
    [] DOMAIN p.Request = {"pred"} ->
         predicateCase(p, unmarshalPredicateRecurse(proto, p.Request.pred))
    [] DOMAIN p.Request = {"preds"} ->
         sliceCase(p, [i \in 1..Len(p.Request.preds) |->
                        unmarshalPredicateRecurse(proto, p.Request.preds[i])])
    [] OTHER -> [err |-> NoErr, val |-> p]

rawValue(r, um) == [err |-> um.err, val |-> [r EXCEPT !.Value = um.val]]

\* response r after the loop body: its raw Value is replaced by the payload
responseCase(proto, r) ==
  IF IsRaw(r.Value) THEN rawValue(r, unmarshalResponse(proto, r.Value.raw))
  ELSE [err |-> NoErr, val |-> r]

\* stub s after the two loops, ps and rs being the outcomes of their bodies
resolvedStub(s, ps, rs) ==
  CASE FirstErr(ps) # NoErr -> [err |-> FirstErr(ps), val |-> s]
    [] FirstErr(rs) # NoErr -> [err |-> FirstErr(rs), val |-> s]
    [] OTHER -> [err |-> NoErr,
                 val |-> [Predicates |-> [i \in 1..Len(ps) |-> ps[i].val],
                          Responses |-> [i \in 1..Len(rs) |-> rs[i].val]]]

\* the two loops over a decoded stub s: its predicates, then its responses
resolveStub(proto, s) ==
  resolvedStub(s,
               [i \in 1..Len(s.Predicates) |-> unmarshalPredicateRecurse(proto, s.Predicates[i])],
               [i \in 1..Len(s.Responses) |-> responseCase(proto, s.Responses[i])])

RECURSIVE stubsLoop(_, _, _)

\* the rest of the body of the loop over dto.Stubs once stub i is decoded, r
\* being the outcome of its two loops
stubStep(i, raws, imp, r) ==
  IF r.err # NoErr THEN {[err |-> r.err, val |-> imp]}
  ELSE stubsLoop(i + 1, raws, [imp EXCEPT !.Stubs[i] = r.val])

\* the loop over dto.Stubs from index i on; imp.Stubs[i] is assigned only when
\* stub i decoded and resolved
stubsLoop(i, raws, imp) ==
  IF i > Len(raws) THEN {[err |-> NoErr, val |-> imp]}
  ELSE UNION {
         IF d.err # NoErr THEN {[err |-> d.err, val |-> imp]}
         ELSE stubStep(i, raws, imp, resolveStub(imp.Proto, d.val))
         : d \in StubUnmarshalJSON(raws[i], ZeroStub)}

RECURSIVE requestsLoop(_, _, _)

requestStep(i, raws, imp, r) ==
  IF r.err # NoErr THEN [err |-> r.err, val |-> imp]
  ELSE requestsLoop(i + 1, raws, [imp EXCEPT !.Requests[i] = r.val])

\* the loop over dto.Requests from index i on
requestsLoop(i, raws, imp) ==
  IF i > Len(raws) THEN [err |-> NoErr, val |-> imp]
  ELSE requestStep(i, raws, imp, unmarshalRequest(imp.Proto, raws[i]))

imposterResponseDTOError(b) ==
  LET f == Members(b) IN
  \/ ~IsObj(b) /\ ~IsNull(b)
  \/ BadNum(f, "port") \/ BadStr(f, "protocol") \/ BadStr(f, "name")
  \/ BadNum(f, "numberOfRequests") \/ BadArr(f, "stubs") \/ BadArr(f, "requests")

\* an UnmarshalJSON that starts from a zero Imposter instead of the receiver
ImposterUnmarshalJSONFresh(b, imp) ==
  LET f == Members(b)
      stubs == ArrField(f, "stubs")
      requests == ArrField(f, "requests")
      imp1 == [ZeroImposter EXCEPT !.Port = NumField(f, "port"), !.Proto = StrField(f, "protocol"),
                                   !.Name = StrField(f, "name"),
                                   !.RequestCount = NumField(f, "numberOfRequests")]
      imp2 == IF Len(stubs) > 0
              THEN [imp1 EXCEPT !.Stubs = [i \in 1..Len(stubs) |-> ZeroStub]]
              ELSE imp1
  IN IF imposterResponseDTOError(b) THEN {[err |-> ErrJSON, val |-> imp]}
     ELSE {IF o.err # NoErr \/ Len(requests) = 0 THEN o
           ELSE requestsLoop(1, requests,
                             [o.val EXCEPT !.Requests = [i \in 1..Len(requests) |-> NilValue]])
             : o \in stubsLoop(1, stubs, imp2)}

\* The set of outcomes [err, val] of imp.UnmarshalJSON(b), val being the
\* receiver after the call.
ImposterUnmarshalJSON(b, imp) ==
  LET f == Members(b)
      stubs == ArrField(f, "stubs")
      requests == ArrField(f, "requests")
      imp1 == [imp EXCEPT !.Port = NumField(f, "port"), !.Proto = StrField(f, "protocol"),
                          !.Name = StrField(f, "name"),
                          !.RequestCount = NumField(f, "numberOfRequests")]
      imp2 == IF Len(stubs) > 0
              THEN [imp1 EXCEPT !.Stubs = [i \in 1..Len(stubs) |-> ZeroStub]]
              ELSE imp1
  IN IF imposterResponseDTOError(b) THEN {[err |-> ErrJSON, val |-> imp]}
     ELSE {IF o.err # NoErr \/ Len(requests) = 0 THEN o
           ELSE requestsLoop(1, requests,
                             [o.val EXCEPT !.Requests = [i \in 1..Len(requests) |-> NilValue]])
             : o \in stubsLoop(1, stubs, imp2)}

(***************************************************************************)
(* Specification SpecMapValues: toMapValues and fromMapValues applied to    *)
(* the maps a caller can build and to the query/header objects a server    *)
(* can send.                                                               *)
(***************************************************************************)
NoResult == [none |-> TRUE]

\* the client is not in use
ClientIdle ==
  /\ call = NoResult /\ request = NoResult /\ response = NoResult
  /\ calls = 0 /\ closed = 0 /\ ret = NoResult
  /\ ctx = NoResult /\ baseURL = NoResult /\ parked = NoResult

MapKeys == {"page", "Accept"}
StrVals == {"3", "application/json"}

SeqsUpTo(S, n) == UNION {[1..m -> S] : m \in 0..n}

\* every map[string][]string over MapKeys, a key with no value included
GoMaps == UNION {[D -> SeqsUpTo(StrVals, MaxVals)] : D \in SUBSET MapKeys}

\* a Go map as the data model has it: every key has one or more values
LegalMap(m) == \A k \in DOMAIN m : Len(m[k]) >= 1

WireMapEntries ==
  {JStr(s) : s \in StrVals}
  \cup {JArr([i \in 1..Len(ss) |-> JStr(ss[i])]) : ss \in SeqsUpTo(StrVals, MaxVals)}
  \cup {JNum(3), JNull, JArr(<<JNum(3)>>)}

WireMaps == UNION {[D -> WireMapEntries] : D \in SUBSET MapKeys}

InitMapValues ==
  /\ ClientIdle
  /\ out = NoResult
  /\ \/ pc = "caller" /\ goval \in GoMaps /\ wire = JNull
     \/ pc = "server" /\ goval = EmptyMap /\ wire \in {JObj(m) : m \in WireMaps}

EncodeMapValues ==
  /\ pc = "caller"
  /\ wire' = JObj(toMapValues(goval))
  /\ pc' = "encoded"
  /\ UNCHANGED <<goval, out>>
  /\ UNCHANGED clientVars

DecodeMapValues ==
  /\ pc \in {"encoded", "server"}
  /\ out' = fromMapValues(wire.jobj)
  /\ pc' = IF pc = "encoded" THEN "roundtrip" ELSE "decoded"
  /\ UNCHANGED <<goval, wire>>
  /\ UNCHANGED clientVars

NextMapValues == EncodeMapValues \/ DecodeMapValues

SpecMapValues == InitMapValues /\ [][NextMapValues]_vars

\* C10: a key with one value is encoded as a plain JSON string, a key with
\* several values as a JSON array in the same order; decoding accepts either
\* shape under any key and yields a key-to-sequence map, and decoding the
\* encoding of a legal map gives the map back.
C10_QueryHeaderNormalization ==
  /\ (pc \in {"encoded", "roundtrip"} /\ LegalMap(goval)) =>
       /\ DOMAIN wire.jobj = DOMAIN goval
       /\ \A k \in DOMAIN goval :
            IF Len(goval[k]) = 1
            THEN wire.jobj[k] = JStr(goval[k][1])
            ELSE /\ IsArr(wire.jobj[k])
                 /\ Len(wire.jobj[k].jarr) = Len(goval[k])
                 /\ \A i \in 1..Len(goval[k]) : wire.jobj[k].jarr[i] = JStr(goval[k][i])
  /\ (pc = "roundtrip" /\ LegalMap(goval)) => out.err = NoErr /\ out.val = goval
  /\ (pc = "decoded" /\ \A k \in DOMAIN wire.jobj : ValidMapValue(wire.jobj[k])) =>
       /\ out.err = NoErr
       /\ DOMAIN out.val = DOMAIN wire.jobj
       /\ \A k \in DOMAIN wire.jobj :
            IF IsStr(wire.jobj[k])
            THEN out.val[k] = <<wire.jobj[k].jstr>>
            ELSE /\ Len(out.val[k]) = Len(wire.jobj[k].jarr)
                 /\ \A i \in 1..Len(out.val[k]) : JStr(out.val[k][i]) = wire.jobj[k].jarr[i]

\* a map with a one-value key and a several-value key has been encoded and decoded back
C10_Witness ==
  /\ pc = "roundtrip"
  /\ LegalMap(goval)
  /\ \E k1, k2 \in DOMAIN goval : Len(goval[k1]) = 1 /\ Len(goval[k2]) > 1
  /\ out.err = NoErr

(***************************************************************************)
(* The document-model values a caller builds.                              *)
(***************************************************************************)
\* deepest nesting of "and", "or" and "not" in a predicate the caller builds
MaxDepth == 2

LegalMaps == {m \in GoMaps : LegalMap(m)}

HTTPReqBase == [ZeroHTTPRequest EXCEPT !.Method = "GET", !.Path = "/foo"]

\* request payloads without origin address or timestamp
PlainHTTPRequests ==
  {[HTTPReqBase EXCEPT !.Query = q] : q \in LegalMaps}
  \cup {[HTTPReqBase EXCEPT !.Headers = h] : h \in {m \in LegalMaps : DOMAIN m \subseteq {"Accept"}}}
  \cup {[ZeroHTTPRequest EXCEPT !.Body = JStr("foo")]}

HTTPRequests ==
  PlainHTTPRequests
  \cup {[HTTPReqBase EXCEPT !.RequestFrom = ip] : ip \in IPs}
  \cup {[HTTPReqBase EXCEPT !.Timestamp = "2018-10-10T09:12:08.075Z"]}

PlainTCPRequests == {[RequestFrom |-> NoIP, Data |-> d] : d \in {"SGVsbG8=", ""}}

TCPRequests ==
  PlainTCPRequests \cup {[RequestFrom |-> ip, Data |-> "SGVsbG8="] : ip \in IPs}

HTTPResponses ==
  {[ZeroHTTPResponse EXCEPT !.StatusCode = 200],
   [ZeroHTTPResponse EXCEPT !.StatusCode = 200, !.Body = JStr("{\"test\":true}"), !.Mode = "text"]}
  \cup {[ZeroHTTPResponse EXCEPT !.Headers = h] : h \in {m \in LegalMaps : DOMAIN m = {"Accept"}}}

TCPResponses == {[Data |-> d] : d \in {"Z2l0aHVi", ""}}

\* the payloads of one protocol; a caller may give a protocol the server does
\* not know ("udp"), and builds it with the HTTP payloads
RequestPayloads(proto) ==
  IF proto = "tcp" THEN {[tcp |-> r] : r \in TCPRequests} ELSE {[http |-> r] : r \in HTTPRequests}
PlainRequestPayloads(proto) ==
  IF proto = "tcp" THEN {[tcp |-> r] : r \in PlainTCPRequests}
  ELSE {[http |-> r] : r \in PlainHTTPRequests}
ResponsePayloads(proto) ==
  IF proto = "tcp" THEN {[tcpresp |-> r] : r \in TCPResponses}
  ELSE {[httpresp |-> r] : r \in HTTPResponses}
BasicRequest(proto) ==
  IF proto = "tcp" THEN [tcp |-> [RequestFrom |-> NoIP, Data |-> "SGVsbG8="]]
  ELSE [http |-> HTTPReqBase]
BasicResponse(proto) ==
  IF proto = "tcp" THEN [tcpresp |-> [Data |-> "Z2l0aHVi"]]
  ELSE [httpresp |-> [ZeroHTTPResponse EXCEPT !.StatusCode = 200]]

Cmp(operator, payload) == [ZeroPredicate EXCEPT !.Operator = operator, !.Request = payload]
Inject(js) == [ZeroPredicate EXCEPT !.Operator = "inject", !.Request = [str |-> js]]
Not(p) == [ZeroPredicate EXCEPT !.Operator = "not", !.Request = [pred |-> p]]
And(ps) == [ZeroPredicate EXCEPT !.Operator = "and", !.Request = [preds |-> ps]]
Or(ps) == [ZeroPredicate EXCEPT !.Operator = "or", !.Request = [preds |-> ps]]

ComparisonOperators ==
  {"equals", "deepEquals", "contains", "startsWith", "endsWith", "matches", "exists"}

TreeLeaves(proto) ==
  {Cmp("equals", BasicRequest(proto)),
   [Cmp("contains", BasicRequest(proto)) EXCEPT !.CaseSensitive = TRUE],
   Inject("function (request) { return true; }")}

\* the predicates nested at most d deep
RECURSIVE Trees(_, _)
Trees(proto, d) ==
  IF d = 0 THEN TreeLeaves(proto)
  ELSE LET T == Trees(proto, d - 1)
       IN T \cup {Not(p) : p \in T} \cup {And(<<p>>) : p \in T}
            \cup {Or(<<p, q>>) : p, q \in TreeLeaves(proto)}

JSONPaths == {NilValue, [Selector |-> "$..title"]}

\* one comparison with every combination of the modifiers
ModifiedPredicates(proto) ==
  {[Cmp("equals", BasicRequest(proto)) EXCEPT !.CaseSensitive = c, !.JSONPath = j] :
     c \in BOOLEAN, j \in JSONPaths}

\* what the type of Predicate.Request allows and the encoder does not support
UnsupportedPredicates ==
  {Cmp("equals", NilValue), Cmp("equals", [other |-> "int"]),
   And(<<Cmp("equals", [other |-> "int"])>>)}

GoPredicates ==
  UNION {Trees(proto, MaxDepth) \cup ModifiedPredicates(proto)
         \cup {Cmp(o, r) : o \in {"equals", "endsWith"}, r \in RequestPayloads(proto)}
           : proto \in {"http", "tcp"}}
  \cup UnsupportedPredicates

(***************************************************************************)
(* The predicate objects a server can send.                                *)
(***************************************************************************)
WireLeaf == JObj("path" :> JStr("/foo"))
WireLeafPredicate == JObj("equals" :> WireLeaf)

\* operator members: at most one per key
WireOperatorMembers ==
  {<<"equals", WireLeaf>>,
   <<"contains", JObj("data" :> JStr("SGVsbG8="))>>,
   <<"inject", JStr("function (request) { return true; }")>>,
   <<"not", WireLeafPredicate>>,
   <<"and", JArr(<<WireLeafPredicate, JObj("not" :> WireLeafPredicate)>>)>>}

WireModifierMembers ==
  {<<paramCaseSensitive, JBool(TRUE)>>,
   <<paramJSONPath, JObj("selector" :> JStr("$..title"))>>,
   <<paramExcept, JStr("^Hello")>>,
   <<paramXPath, JObj("selector" :> JStr("//title"))>>}

\* predicate objects with none, one or two operator members and any modifiers
WirePredicates ==
  {JObj(MkObj(ops \cup mods)) :
     ops \in {S \in SUBSET WireOperatorMembers : Cardinality(S) <= 2},
     mods \in SUBSET WireModifierMembers}
  \cup {JObj("not" :> JObj(EmptyMap)),
        JObj("not" :> JObj(("equals" :> WireLeaf) @@ ("contains" :> WireLeaf))),
        JObj("and" :> JArr(<<JNull>>)),
        JObj("inject" :> JNum(3)),
        JObj(("equals" :> WireLeaf) @@ (paramCaseSensitive :> JStr("yes"))),
        JNull, JArr(<< >>)}

\* the keys of a predicate object that are not reserved modifier keys
OperatorKeys(b) == DOMAIN Members(b) \ ReservedKeys

(***************************************************************************)
(* Specification SpecPredicate: Predicate.MarshalJSON on the predicates a   *)
(* caller builds, Predicate.UnmarshalJSON on what was encoded and on the   *)
(* predicate objects a server sends.                                       *)
(***************************************************************************)
InitPredicate ==
  /\ ClientIdle
  /\ out = NoResult
  /\ \/ pc = "caller" /\ goval \in GoPredicates /\ wire = JNull
     \/ pc = "server" /\ goval = ZeroPredicate /\ wire \in WirePredicates

EncodePredicate ==
  /\ pc = "caller"
  /\ LET m == PredicateMarshalJSON(goval)
     IN /\ wire' = m.json
        /\ out' = [err |-> m.err, val |-> ZeroPredicate]
        /\ pc' = CASE m.err = NoErr -> "encoded"
                   [] m.err = PanicNilType -> "panicked"
                   [] OTHER -> "failed"
  /\ UNCHANGED goval
  /\ UNCHANGED clientVars

DecodePredicate ==
  /\ pc \in {"encoded", "server"}
  /\ \E o \in PredicateUnmarshalJSON(wire, ZeroPredicate) : out' = o
  /\ pc' = IF pc = "encoded" THEN "roundtrip" ELSE "decoded"
  /\ UNCHANGED <<goval, wire>>
  /\ UNCHANGED clientVars

NextPredicate == EncodePredicate \/ DecodePredicate

SpecPredicate == InitPredicate /\ [][NextPredicate]_vars

\* C2: Predicate.UnmarshalJSON returns the malformed-predicate error for every
\* JSON object left with no key or with two or more keys once the reserved
\* modifier keys are removed, and succeeds only when exactly one remains.
C2_SingleOperator ==
  (pc = "decoded" /\ IsObj(wire)) =>
     /\ Cardinality(OperatorKeys(wire)) # 1 => out.err = ErrSingleOperator
     /\ out.err = NoErr => Cardinality(OperatorKeys(wire)) = 1


\* the modifier members Predicate.MarshalJSON writes for the predicate p
ModifierMembers(p) ==
  (IF p.CaseSensitive THEN paramCaseSensitive :> JBool(TRUE) ELSE EmptyMap)
  @@ (IF IsNil(p.JSONPath) THEN EmptyMap
      ELSE paramJSONPath :> JObj("selector" :> JStr(p.JSONPath.Selector)))

\* C19: Predicate.MarshalJSON writes one object holding the operator key and,
\* beside it, the caseSensitive and jsonpath members of the modifiers that
\* are set; Predicate.UnmarshalJSON of that object succeeds, in every order
\* of its keys, with the Operator, CaseSensitive and JSONPath that were
\* encoded, and never with a modifier key as Operator.
C19_ModifiersBesideOperator ==
  /\ (pc \in {"encoded", "roundtrip"}) =>
       /\ IsObj(wire)
       /\ DOMAIN wire.jobj = {goval.Operator} \cup DOMAIN ModifierMembers(goval)
       /\ \A k \in DOMAIN ModifierMembers(goval) : wire.jobj[k] = ModifierMembers(goval)[k]
  /\ pc = "roundtrip" =>
       /\ out.err = NoErr
       /\ out.val.Operator = goval.Operator
       /\ out.val.CaseSensitive = goval.CaseSensitive
       /\ out.val.JSONPath = goval.JSONPath
       /\ out.val.Operator \notin {paramCaseSensitive, paramJSONPath}

\* a comparison with both modifiers set came back from its own encoding
C19_Witness ==
  /\ pc = "roundtrip"
  /\ goval.Operator = "equals"
  /\ goval.CaseSensitive /\ goval.JSONPath = [Selector |-> "$..title"]
  /\ DOMAIN wire.jobj = {"equals", paramCaseSensitive, paramJSONPath}
  /\ out.err = NoErr
  /\ out.val.Operator = "equals"
  /\ out.val.CaseSensitive /\ out.val.JSONPath = [Selector |-> "$..title"]

(***************************************************************************)
(* Specification SpecResponse: Response.MarshalJSON on the responses a      *)
(* caller builds, Response.UnmarshalJSON into a fresh Response on what was  *)
(* encoded and on the response objects a server sends.                     *)
(***************************************************************************)
ResponseTypes == {"is", "proxy", "inject"}

GoBehaviors == {NilValue, [Wait |-> 500], [Wait |-> 0]}

GoResponses ==
  {[Type |-> t, Value |-> v, Behaviors |-> bh] :
     t \in ResponseTypes,
     v \in ResponsePayloads("http") \cup ResponsePayloads("tcp"),
     bh \in GoBehaviors}
  \cup {[Type |-> "is", Value |-> NilValue, Behaviors |-> NilValue]}

WireTypeMembers ==
  {<<"is", JObj("statusCode" :> JNum(200))>>, <<"proxy", JObj("to" :> JStr("http://origin"))>>}

WireBehaviorsMembers ==
  {<<keyBehaviors, b>> : b \in {JObj("wait" :> JNum(500)), JObj(EmptyMap), JNull, JStr("500")}}

\* response objects with none, one or two type members, with or without behaviors
WireResponses ==
  {JObj(MkObj(types \cup bhs)) :
     types \in SUBSET WireTypeMembers,
     bhs \in {S \in SUBSET WireBehaviorsMembers : Cardinality(S) <= 1}}
  \cup {JNull, JArr(<< >>)}

InitResponse ==
  /\ ClientIdle
  /\ out = NoResult
  /\ \/ pc = "caller" /\ goval \in GoResponses /\ wire = JNull
     \/ pc = "server" /\ goval = ZeroResponse /\ wire \in WireResponses

EncodeResponse ==
  /\ pc = "caller"
  /\ LET m == ResponseMarshalJSON(goval)
     IN /\ wire' = m.json
        /\ out' = [err |-> m.err, val |-> ZeroResponse]
        /\ pc' = CASE m.err = NoErr -> "encoded"
                   [] m.err = PanicNilType -> "panicked"
                   [] OTHER -> "failed"
  /\ UNCHANGED goval
  /\ UNCHANGED clientVars

DecodeResponse ==
  /\ pc \in {"encoded", "server"}
  /\ \E o \in ResponseUnmarshalJSON(wire, ZeroResponse) : out' = o
  /\ pc' = IF pc = "encoded" THEN "roundtrip" ELSE "decoded"
  /\ UNCHANGED <<goval, wire>>
  /\ UNCHANGED clientVars

NextResponse == EncodeResponse \/ DecodeResponse

SpecResponse == InitResponse /\ [][NextResponse]_vars

\* C5: a Response with Behaviors is encoded with the behaviors under the
\* sibling key "_behaviors" next to the type key, not inside the payload, and
\* decoding that object into a fresh Response succeeds with the same Type and
\* the same Behaviors.
C5_BehaviorsSibling ==
  /\ (pc \in {"encoded", "roundtrip"} /\ ~IsNil(goval.Behaviors)) =>
       /\ DOMAIN wire.jobj = {goval.Type, keyBehaviors}
       /\ wire.jobj[keyBehaviors] = BehaviorsMarshalJSON(goval.Behaviors)
       /\ keyBehaviors \notin DOMAIN wire.jobj[goval.Type].jobj
  /\ (pc = "roundtrip" /\ ~IsNil(goval.Behaviors)) =>
       /\ out.err = NoErr
       /\ out.val.Type = goval.Type
       /\ out.val.Behaviors = goval.Behaviors

\* the type keys of a response object: its keys but "_behaviors"
TypeKeys(b) == DOMAIN Members(b) \ {keyBehaviors}

\* C27: Response.UnmarshalJSON returns an error for every object that has
\* no type key or more than one once "_behaviors" is removed; a Response it
\* returns without error has a Type that was the only type key.
C27_SingleType ==
  (pc = "decoded" /\ IsObj(wire)) =>
     /\ Cardinality(TypeKeys(wire)) # 1 => out.err # NoErr
     /\ out.err = NoErr => out.val.Type \in TypeKeys(wire) /\ ~IsNil(out.val.Value)

(***************************************************************************)
(* Specification SpecTwice: the same predicate or response object decoded   *)
(* twice, each time into a fresh value.  goval holds the result of the     *)
(* first decode and out the result of the second.                          *)
(***************************************************************************)
InitTwice ==
  /\ ClientIdle
  /\ goval = NoResult
  /\ out = NoResult
  /\ \/ pc = "predicate" /\ wire \in WirePredicates
     \/ pc = "response" /\ wire \in WireResponses

DecodePredicateTwice ==
  /\ pc \in {"predicate", "predicate once"}
  /\ \E o \in PredicateUnmarshalJSON(wire, ZeroPredicate) :
       IF pc = "predicate" THEN goval' = o /\ out' = out
                           ELSE out' = o /\ goval' = goval
  /\ pc' = IF pc = "predicate" THEN "predicate once" ELSE "twice"
  /\ UNCHANGED wire
  /\ UNCHANGED clientVars

DecodeResponseTwice ==
  /\ pc \in {"response", "response once"}
  /\ \E o \in ResponseUnmarshalJSON(wire, ZeroResponse) :
       IF pc = "response" THEN goval' = o /\ out' = out
                          ELSE out' = o /\ goval' = goval
  /\ pc' = IF pc = "response" THEN "response once" ELSE "twice"
  /\ UNCHANGED wire
  /\ UNCHANGED clientVars

NextTwice == DecodePredicateTwice \/ DecodeResponseTwice

SpecTwice == InitTwice /\ [][NextTwice]_vars

\* C30: decoding the same JSON bytes twice into fresh values gives equal
\* results, the same error or the same Operator/Type and payload, for every
\* predicate and response object.
C30_DecodeDeterministic == pc = "twice" => out = goval

(***************************************************************************)
(* Specification SpecRequest: the request payload codecs on the payloads a  *)
(* caller builds and on the request objects a server sends.  goval holds    *)
(* the payload, [http] or [tcp]; on the server side it is the zero payload  *)
(* of the type decoded into.                                               *)
(***************************************************************************)
WireSockets ==
  {<<"172.17.0.1", "58112">>, <<"", "", "ffff", "172.17.0.1", "58112">>,
   <<"172.17.0.1">>, <<"localhost", "58112">>}

WireRequestFrom == {{}} \cup {{<<"requestFrom", JStr(a)>>} : a \in WireSockets}
                     \cup {{<<"requestFrom", JNum(58112)>>}}
WireMethod == {{}, {<<"method", JStr("GET")>>}}
WireData == {{}, {<<"data", JStr("SGVsbG8=")>>}}
WireQueryObjects ==
  {JObj("page" :> JStr("3")), JObj("page" :> JArr(<<JStr("3"), JStr("3")>>)),
   JObj("page" :> JNum(3)), JObj("page" :> JArr(<<JNum(3)>>))}
WireQuery == {{}} \cup {{<<"query", q>>} : q \in WireQueryObjects}
WireHeaders == {{}, {<<"headers", JObj("Accept" :> JStr("application/json"))>>},
                {<<"headers", JObj("Accept" :> JBool(TRUE))>>}}

WireRequests ==
  {JObj(MkObj(a \cup m \cup d \cup q \cup h)) :
     a \in WireRequestFrom, m \in WireMethod, d \in WireData, q \in WireQuery, h \in WireHeaders}

InitRequest ==
  /\ ClientIdle
  /\ out = NoResult
  /\ \/ /\ pc = "caller"
        /\ goval \in RequestPayloads("http") \cup RequestPayloads("tcp")
        /\ wire = JNull
     \/ /\ pc = "server"
        /\ goval \in {[http |-> ZeroHTTPRequest], [tcp |-> ZeroTCPRequest]}
        /\ wire \in WireRequests

EncodeRequest ==
  /\ pc = "caller"
  /\ wire' = IF DOMAIN goval = {"http"} THEN HTTPRequestMarshalJSON(goval.http)
             ELSE TCPRequestMarshalJSON(goval.tcp)
  /\ pc' = "encoded"
  /\ UNCHANGED <<goval, out>>
  /\ UNCHANGED clientVars

DecodeRequest ==
  /\ pc \in {"encoded", "server"}
  /\ out' = IF DOMAIN goval = {"http"} THEN HTTPRequestUnmarshalJSON(wire, ZeroHTTPRequest)
            ELSE TCPRequestUnmarshalJSON(wire, ZeroTCPRequest)
  /\ pc' = IF pc = "encoded" THEN "roundtrip" ELSE "decoded"
  /\ UNCHANGED <<goval, wire>>
  /\ UNCHANGED clientVars

NextRequest == EncodeRequest \/ DecodeRequest

SpecRequest == InitRequest /\ [][NextRequest]_vars

\* the requestFrom member of the request object b is a string that is no address
BadRequestFrom(b) ==
  LET from == SockField(b.jobj, "requestFrom")
  IN from # EmptySock /\ parseClientSocket(from).err # NoErr

\* a query or headers entry of the request object b is neither a string nor an
\* array of strings
BadMapEntry(b) ==
  \E m \in {"query", "headers"} :
     \E k \in DOMAIN MapField(b.jobj, m) : ~ValidMapValue(MapField(b.jobj, m)[k])

\* C7: HTTPRequest.UnmarshalJSON returns a non-nil error when requestFrom is
\* not a parseable address or when a query or headers entry is neither a
\* string nor an array of strings.
C7_HTTPRequestDecodeErrors ==
  (pc = "decoded" /\ DOMAIN goval = {"http"} /\ (BadRequestFrom(wire) \/ BadMapEntry(wire)))
     => out.err # NoErr


\* the payload the caller holds, and the one decoded
Payload(v) == IF DOMAIN v = {"http"} THEN v.http ELSE v.tcp

\* the requestFrom strings "host:port" whose host is an address, as the
\* server writes them
HostPorts == {<<"172.17.0.1", "58112">>, <<"", "", "ffff", "172.17.0.1", "58112">>}

\* C22: decoding a request payload whose requestFrom is "host:port" gives a
\* RequestFrom equal to the address of the host, the port dropped; the data
\* of a tcp payload is the string of the wire, unchanged.
C22_HostOnlyOpaqueData ==
  (pc = "decoded" /\ IsObj(wire)) =>
    /\ SockField(wire.jobj, "requestFrom") \in HostPorts =>
         out.err = NoErr /\ out.val.RequestFrom = IPv4Docker
    /\ (DOMAIN goval = {"tcp"} /\ out.err = NoErr) =>
         out.val.Data = StrField(wire.jobj, "data")

\* a tcp payload sent with "172.17.0.1:58112" and data decoded to the host
\* address and the same data
C22_Witness ==
  /\ pc = "decoded"
  /\ DOMAIN goval = {"tcp"}
  /\ wire = JObj(("requestFrom" :> JStr(<<"172.17.0.1", "58112">>)) @@ ("data" :> JStr("SGVsbG8=")))
  /\ out = [val |-> [RequestFrom |-> IPv4Docker, Data |-> "SGVsbG8="], err |-> NoErr]

\* C28: a payload with a RequestFrom, encoded and then decoded by the same
\* type, comes back without error and equal: the same address, every other
\* field restored.
C28_RequestFromRoundTrip ==
  (pc = "roundtrip" /\ Payload(goval).RequestFrom # NoIP) =>
    out.err = NoErr /\ out.val = Payload(goval)

(***************************************************************************)
(* The Imposters a caller builds and the imposter objects a server sends.  *)
(***************************************************************************)
\* longest list of stubs in an imposter
MaxStubs == 2

Stub(ps, rs) == [Predicates |-> ps, Responses |-> rs]
Is(v) == [Type |-> "is", Value |-> v, Behaviors |-> NilValue]

BasicStub(proto) == Stub(<<Cmp("equals", BasicRequest(proto))>>, <<Is(BasicResponse(proto))>>)

\* one predicate tree, one response
TreeStubs(proto) ==
  {Stub(<<p>>, <<Is(BasicResponse(proto))>>) :
     p \in Trees(proto, MaxDepth) \cup ModifiedPredicates(proto)}

\* comparisons over every request payload, "is" responses over every response payload
PayloadStubs(proto) ==
  {Stub(<<Cmp("equals", r)>>, <<Is(BasicResponse(proto))>>) : r \in RequestPayloads(proto)}
  \cup {Stub(<<Cmp("endsWith", BasicRequest(proto)), Cmp("equals", BasicRequest(proto))>>, <<Is(v)>>) :
          v \in ResponsePayloads(proto)}
  \cup (IF proto = "tcp" THEN {}
        ELSE {Stub(<<Cmp("equals", [http |-> [HTTPReqBase EXCEPT !.Query = ("page" :> << >>)]])>>,
                   <<Is(BasicResponse(proto))>>)})

StubResponses(proto) ==
  {Is(BasicResponse(proto)),
   [Is(BasicResponse(proto)) EXCEPT !.Behaviors = [Wait |-> 500]],
   [Is(BasicResponse(proto)) EXCEPT !.Type = "proxy"]}

\* no predicate, up to two responses
ResponseStubs(proto) ==
  {Stub(<< >>, rs) : rs \in SeqsUpTo(StubResponses(proto), 2)}

GoStubs(proto) == TreeStubs(proto) \cup PayloadStubs(proto) \cup ResponseStubs(proto)

SmallStubPool(proto) ==
  {BasicStub(proto), Stub(<< >>, <<[Is(BasicResponse(proto)) EXCEPT !.Type = "proxy"]>>)}

Protocols == {"http", "tcp"}

\* a caller may also name a protocol that is not supported
CallerProtocols == Protocols \cup {"udp"}

Imp(proto, port, name, rec, cors, def, stubs) ==
  [Port |-> port, Proto |-> proto, Name |-> name, RecordRequests |-> rec, Requests |-> << >>,
   RequestCount |-> 0, AllowCORS |-> cors, DefaultResponse |-> def, Stubs |-> stubs]

GoImposters ==
  UNION {
    {Imp(proto, 8080, "imposter", FALSE, FALSE, NilValue, <<s>>) : s \in GoStubs(proto)}
    \cup {Imp(proto, port, name, rec, cors, def, stubs) :
            port \in {0, 8080}, name \in {"", "imposter"}, rec \in BOOLEAN, cors \in BOOLEAN,
            def \in {NilValue, BasicResponse(proto)},
            stubs \in SeqsUpTo(SmallStubPool(proto), MaxStubs)}
    : proto \in CallerProtocols}

WireStub(ps, rs) == JObj(("predicates" :> JArr(ps)) @@ ("responses" :> JArr(rs)))
WireIs == JObj("is" :> JObj(EmptyMap))

\* predicate objects with a deferred leaf at every depth, well formed and not
WireStubPredicates ==
  {WireLeafPredicate,
   JObj("equals" :> JObj(("requestFrom" :> JStr(<<"172.17.0.1", "58112">>))
                         @@ ("data" :> JStr("SGVsbG8=")))),
   JObj("not" :> WireLeafPredicate),
   JObj("and" :> JArr(<<WireLeafPredicate, JObj("not" :> WireLeafPredicate)>>)),
   JObj("not" :> JObj("or" :> JArr(<<WireLeafPredicate>>))),
   JObj("inject" :> JStr("function (request) { return true; }")),
   JObj(EmptyMap),
   JObj(("equals" :> WireLeaf) @@ ("inject" :> JStr("function (request) { return true; }"))),
   JObj("equals" :> JObj("requestFrom" :> JStr(<<"localhost", "58112">>))),
   JObj("equals" :> JObj("query" :> JObj("page" :> JNum(3))))}

WireStubResponses ==
  {JObj("is" :> JObj("statusCode" :> JNum(200))),
   JObj("is" :> JObj("data" :> JStr("Z2l0aHVi"))),
   JObj(("is" :> JObj(EmptyMap)) @@ (keyBehaviors :> JObj("wait" :> JNum(500)))),
   JObj("is" :> JObj("headers" :> JObj("Accept" :> JNum(3)))),
   JObj(EmptyMap)}

WireStubs ==
  {WireStub(<<p>>, <<WireIs>>) : p \in WireStubPredicates}
  \cup {WireStub(<< >>, <<r>>) : r \in WireStubResponses}
  \cup {WireStub(<< >>, << >>), JObj(EmptyMap),
        WireStub(<<JObj("inject" :> JStr("function (request) { return true; }"))>>, << >>)}

SmallWireStubPool ==
  {WireStub(<<WireLeafPredicate>>, <<WireIs>>),
   WireStub(<<JObj("inject" :> JStr("function (request) { return true; }"))>>, << >>),
   WireStub(<<JObj(EmptyMap)>>, <<WireIs>>),
   WireStub(<<JObj("not" :> WireLeafPredicate)>>, << >>)}

WireStubLists ==
  {<<s>> : s \in WireStubs} \cup SeqsUpTo(SmallWireStubPool, MaxStubs)

WireRecorded ==
  {<< >>,
   <<JObj(("requestFrom" :> JStr(<<"", "", "ffff", "172.17.0.1", "58112">>))
          @@ ("method" :> JStr("GET")) @@ ("path" :> JStr("/foo"))
          @@ ("timestamp" :> JStr("2018-10-10T09:12:08.075Z")))>>,
   <<JObj("data" :> JStr("SGVsbG8=")), JObj("requestFrom" :> JStr(<<"localhost", "58112">>))>>}

WireProtocols == {{}} \cup {{<<"protocol", JStr(x)>>} : x \in {"http", "tcp", "udp"}}

WireImposters ==
  {JObj(MkObj(proto
              \cup Opt(Len(ss) > 0, "port", JNum(8080))
              \cup Opt(Len(rq) > 0, "numberOfRequests", JNum(Len(rq)))
              \cup Opt(Len(ss) > 0, "stubs", JArr(ss))
              \cup Opt(Len(rq) > 0, "requests", JArr(rq)))) :
     proto \in WireProtocols, ss \in WireStubLists, rq \in WireRecorded}

(***************************************************************************)
(* Specification SpecImposter: Imposter.MarshalJSON on the Imposters a      *)
(* caller builds, Imposter.UnmarshalJSON into a fresh Imposter on what was  *)
(* encoded and on the imposter objects a server sends.                     *)
(***************************************************************************)
InitImposter ==
  /\ ClientIdle
  /\ out = NoResult
  /\ \/ pc = "caller" /\ goval \in GoImposters /\ wire = JNull
     \/ pc = "server" /\ goval = ZeroImposter /\ wire \in WireImposters

EncodeImposter ==
  /\ pc = "caller"
  /\ LET m == ImposterMarshalJSON(goval)
     IN /\ wire' = m.json
        /\ out' = [err |-> m.err, val |-> ZeroImposter]
        /\ pc' = CASE m.err = NoErr -> "encoded"
                   [] m.err = PanicNilType -> "panicked"
                   [] OTHER -> "failed"
  /\ UNCHANGED goval
  /\ UNCHANGED clientVars

DecodeImposter ==
  /\ pc \in {"encoded", "server"}
  /\ \E o \in ImposterUnmarshalJSON(wire, ZeroImposter) : out' = o
  /\ pc' = IF pc = "encoded" THEN "roundtrip" ELSE "decoded"
  /\ UNCHANGED <<goval, wire>>
  /\ UNCHANGED clientVars

NextImposter == EncodeImposter \/ DecodeImposter

SpecImposter == InitImposter /\ [][NextImposter]_vars

(***************************************************************************)
(* Properties of SpecImposter.                                             *)
(***************************************************************************)
Decoded == pc \in {"decoded", "roundtrip"}

ResponseKind(proto) == IF proto = "tcp" THEN "tcpresp" ELSE "httpresp"

\* no predicate of the tree holds raw JSON; a comparison holds the payload of proto
RECURSIVE PredicateResolved(_, _)
PredicateResolved(proto, p) ==
  LET req == p.Request
  IN CASE DOMAIN req = {"pred"} -> PredicateResolved(proto, req.pred)
       [] DOMAIN req = {"preds"} ->
            \A i \in 1..Len(req.preds) : PredicateResolved(proto, req.preds[i])
       [] DOMAIN req = {"str"} -> TRUE
       [] OTHER -> DOMAIN req = {proto}

ImposterResolved(imp) ==
  /\ \A i \in 1..Len(imp.Stubs) :
       /\ \A j \in 1..Len(imp.Stubs[i].Predicates) :
            PredicateResolved(imp.Proto, imp.Stubs[i].Predicates[j])
       /\ \A j \in 1..Len(imp.Stubs[i].Responses) :
            LET v == imp.Stubs[i].Responses[j].Value
            IN IsNil(v) \/ DOMAIN v = {ResponseKind(imp.Proto)}
  /\ \A i \in 1..Len(imp.Requests) : DOMAIN imp.Requests[i] = {imp.Proto}

\* C1: after Imposter.UnmarshalJSON succeeds on an "http" or "tcp" imposter,
\* no predicate at any depth through "and", "or" and "not" holds raw JSON:
\* every comparison leaf, every response value given on the wire and every
\* recorded request is the payload of the imposter's protocol.
C1_DeferredResolution ==
  (Decoded /\ out.err = NoErr /\ out.val.Proto \in Protocols) => ImposterResolved(out.val)

LegalPayload(v) ==
  DOMAIN v = {"http"} => LegalMap(v.http.Query) /\ LegalMap(v.http.Headers)

RECURSIVE LegalPredicate(_)
LegalPredicate(p) ==
  LET req == p.Request
  IN CASE DOMAIN req = {"pred"} -> LegalPredicate(req.pred)
       [] DOMAIN req = {"preds"} -> \A i \in 1..Len(req.preds) : LegalPredicate(req.preds[i])
       [] DOMAIN req = {"str"} -> TRUE
       [] OTHER -> DOMAIN req \subseteq Protocols /\ LegalPayload(req)

\* an Imposter of a supported protocol built from legal field combinations
LegalImposter(imp) ==
  /\ imp.Proto \in Protocols
  /\ \A i \in 1..Len(imp.Stubs) :
       \A j \in 1..Len(imp.Stubs[i].Predicates) : LegalPredicate(imp.Stubs[i].Predicates[j])

CallerFields(imp) ==
  <<imp.Port, imp.Proto, imp.Name, imp.RecordRequests, imp.AllowCORS, imp.DefaultResponse,
    imp.Stubs>>

\* C3: round-trip law.  Every legal http or tcp Imposter encodes, and
\* decoding what Imposter.MarshalJSON produced into a fresh Imposter succeeds
\* and yields a value equal to the original on every caller-controlled field.
C3_RoundTripLaw ==
  /\ (pc = "failed" => ~LegalImposter(goval))
  /\ (pc = "roundtrip" /\ LegalImposter(goval)) =>
       out.err = NoErr /\ CallerFields(out.val) = CallerFields(goval)

PlainComparison(proto, p) ==
  /\ p.Operator \in ComparisonOperators
  /\ DOMAIN p.Request = {proto}
  /\ p.Request \in PlainRequestPayloads(proto)
  /\ ~p.CaseSensitive
  /\ IsNil(p.JSONPath)

PlainIs(proto, r) ==
  /\ r.Type = "is"
  /\ DOMAIN r.Value = {ResponseKind(proto)}
  /\ r.Value \in ResponsePayloads(proto)
  /\ IsNil(r.Behaviors)

\* an http or tcp Imposter made only of port, protocol, name and stubs of
\* comparisons over plain request payloads and "is" responses
PlainImposter(imp) ==
  /\ imp.Proto \in Protocols
  /\ ~imp.RecordRequests /\ ~imp.AllowCORS /\ IsNil(imp.DefaultResponse)
  /\ imp.Requests = << >> /\ imp.RequestCount = 0
  /\ \A i \in 1..Len(imp.Stubs) :
       /\ \A j \in 1..Len(imp.Stubs[i].Predicates) :
            PlainComparison(imp.Proto, imp.Stubs[i].Predicates[j])
       /\ \A j \in 1..Len(imp.Stubs[i].Responses) :
            PlainIs(imp.Proto, imp.Stubs[i].Responses[j])

\* C4: an http or tcp Imposter made only of port, protocol, name and stubs
\* whose predicates are comparisons over a plain request payload and whose
\* responses are "is" responses always encodes, and decoding the encoded
\* bytes gives back the very same Imposter: same port, protocol and name,
\* same stubs, predicates and responses, query and headers as key-to-sequence
\* maps, nothing added and nothing missing.
C4_PlainImposterRoundTrip ==
  /\ (pc = "failed" => ~PlainImposter(goval))
  /\ (pc = "roundtrip" /\ PlainImposter(goval)) => out.err = NoErr /\ out.val = goval

\* a plain Imposter whose query holds a key with two values came back equal
C4_Witness ==
  /\ pc = "roundtrip"
  /\ PlainImposter(goval)
  /\ goval.Proto = "http"
  /\ Len(goval.Stubs) = 1
  /\ Len(goval.Stubs[1].Predicates) = 1
  /\ \E k \in MapKeys :
       LET q == goval.Stubs[1].Predicates[1].Request.http.Query
       IN k \in DOMAIN q /\ Len(q[k]) = 2
  /\ out.err = NoErr
  /\ out.val = goval

WireProtocol(b) == StrField(Members(b), "protocol")

\* the outcomes of the first, protocol-independent decode of stub i of b
StubEnvelopes(b, i) == StubUnmarshalJSON(ArrField(Members(b), "stubs")[i], ZeroStub)

WireStubCount(b) == Len(ArrField(Members(b), "stubs"))

\* the imposter object and each of its stubs pass the protocol-independent decode
EnvelopeDecodes(b) ==
  /\ ~imposterResponseDTOError(b)
  /\ \A i \in 1..WireStubCount(b) : \A o \in StubEnvelopes(b, i) : o.err = NoErr

RECURSIVE HasRawLeaf(_)
HasRawLeaf(p) ==
  LET req == p.Request
  IN CASE IsRaw(req) -> TRUE
       [] DOMAIN req = {"pred"} -> HasRawLeaf(req.pred)
       [] DOMAIN req = {"preds"} -> \E i \in 1..Len(req.preds) : HasRawLeaf(req.preds[i])
       [] OTHER -> FALSE

\* a decoded stub holds a leaf whose decoding waits for the protocol
StubHasRawLeaf(s) ==
  \/ \E j \in 1..Len(s.Predicates) : HasRawLeaf(s.Predicates[j])
  \/ \E j \in 1..Len(s.Responses) : IsRaw(s.Responses[j].Value)

\* whichever way the stubs decode, b gives the decoder a deferred leaf
AlwaysHasLeaf(b) ==
  \/ Len(ArrField(Members(b), "requests")) > 0
  \/ \E i \in 1..WireStubCount(b) : \A o \in StubEnvelopes(b, i) : StubHasRawLeaf(o.val)

\* whichever way the stubs decode, b gives the decoder no deferred leaf
NeverHasLeaf(b) ==
  /\ Len(ArrField(Members(b), "requests")) = 0
  /\ \A i \in 1..WireStubCount(b) : \A o \in StubEnvelopes(b, i) : ~StubHasRawLeaf(o.val)

RECURSIVE HasPayload(_)
HasPayload(p) ==
  LET req == p.Request
  IN CASE DOMAIN req = {"pred"} -> HasPayload(req.pred)
       [] DOMAIN req = {"preds"} -> \E i \in 1..Len(req.preds) : HasPayload(req.preds[i])
       [] OTHER -> DOMAIN req \subseteq Protocols

\* the result holds no decoded request or response payload
NothingResolved(imp) ==
  /\ \A i \in 1..Len(imp.Stubs) :
       /\ \A j \in 1..Len(imp.Stubs[i].Predicates) : ~HasPayload(imp.Stubs[i].Predicates[j])
       /\ \A j \in 1..Len(imp.Stubs[i].Responses) :
            DOMAIN imp.Stubs[i].Responses[j].Value \in {{"nil"}, {"raw"}}
  /\ \A i \in 1..Len(imp.Requests) : IsNil(imp.Requests[i])

\* C8 as stated: every imposter object whose protocol is neither "http" nor
\* "tcp" is refused with the unsupported-protocol error, with or without
\* stubs and recorded requests.
C8_UnsupportedProtocolAlways ==
  (Decoded /\ EnvelopeDecodes(wire) /\ WireProtocol(wire) \notin Protocols) =>
    out.err = ErrUnsupportedProtocol

\* C8 amended: for an imposter object whose protocol is neither "http" nor
\* "tcp" and whose stubs pass the protocol-independent decode,
\* Imposter.UnmarshalJSON returns the unsupported-protocol error exactly when
\* it meets a deferred leaf (a comparison predicate at any depth, a response
\* with a type key, a recorded request); with no such leaf it returns nil.
\* In either case the Imposter it leaves holds no decoded payload.
C8_UnsupportedProtocolAtLeaf ==
  (Decoded /\ EnvelopeDecodes(wire) /\ WireProtocol(wire) \notin Protocols) =>
    /\ out.err \in {NoErr, ErrUnsupportedProtocol}
    /\ AlwaysHasLeaf(wire) => out.err = ErrUnsupportedProtocol
    /\ NeverHasLeaf(wire) => out.err = NoErr
    /\ NothingResolved(out.val)

\* a "udp" imposter object whose only leaf lies under "not" was refused
C8_Witness ==
  /\ pc = "decoded"
  /\ WireProtocol(wire) = "udp"
  /\ EnvelopeDecodes(wire)
  /\ ArrField(Members(wire), "stubs") =
       <<WireStub(<<JObj("not" :> WireLeafPredicate)>>, << >>)>>
  /\ out.err = ErrUnsupportedProtocol
  /\ NothingResolved(out.val)

\* an "inject" predicate holding its code as a string
InjectPredicate(p) == p.Operator = "inject" /\ DOMAIN p.Request = {"str"}

\* the code strings of the "inject" predicates of a tree, in order
RECURSIVE Injected(_), InjectedAll(_)
Injected(p) ==
  CASE DOMAIN p.Request = {"str"} -> <<p.Request.str>>
    [] DOMAIN p.Request = {"pred"} -> Injected(p.Request.pred)
    [] DOMAIN p.Request = {"preds"} -> InjectedAll(p.Request.preds)
    [] OTHER -> << >>
InjectedAll(ps) == IF ps = << >> THEN << >> ELSE Injected(Head(ps)) \o InjectedAll(Tail(ps))

\* a stub of one "inject" predicate and plain "is" responses
InjectStub(proto, s) ==
  /\ Len(s.Predicates) = 1 /\ InjectPredicate(s.Predicates[1])
  /\ \A j \in 1..Len(s.Responses) : PlainIs(proto, s.Responses[j])

\* C20: an "inject" predicate with a string Request is written as a JSON
\* string under the "inject" key, and an http or tcp Imposter decoded from
\* the encoded bytes holds the identical string: a stub of one "inject"
\* predicate comes back equal, and the code strings of "inject" predicates
\* nested under "and", "or" and "not" come back the same.
C20_InjectIsOpaque ==
  (pc \in {"encoded", "roundtrip"} /\ goval.Proto \in Protocols) =>
    \A i \in 1..Len(goval.Stubs) :
      /\ \A j \in 1..Len(goval.Stubs[i].Predicates) :
           LET p == goval.Stubs[i].Predicates[j]
           IN InjectPredicate(p) =>
                wire.jobj["stubs"].jarr[i].jobj["predicates"].jarr[j].jobj["inject"]
                  = JStr(p.Request.str)
      /\ (pc = "roundtrip" /\ InjectStub(goval.Proto, goval.Stubs[i])) =>
           out.err = NoErr /\ out.val.Stubs[i] = goval.Stubs[i]
      /\ (pc = "roundtrip" /\ out.err = NoErr) =>
           InjectedAll(out.val.Stubs[i].Predicates) = InjectedAll(goval.Stubs[i].Predicates)

\* a tcp Imposter whose stub has one "inject" predicate came back with the
\* same string
C20_Witness ==
  /\ pc = "roundtrip"
  /\ goval.Proto = "tcp"
  /\ Len(goval.Stubs) = 1
  /\ goval.Stubs[1].Predicates = <<Inject("function (request) { return true; }")>>
  /\ out.err = NoErr
  /\ out.val.Stubs[1].Predicates[1].Request = [str |-> "function (request) { return true; }"]

\* the operators of a predicate tree, position by position
RECURSIVE Shape(_)
Shape(p) ==
  [op |-> p.Operator,
   kids |-> CASE DOMAIN p.Request = {"preds"} ->
                   [i \in 1..Len(p.Request.preds) |-> Shape(p.Request.preds[i])]
              [] DOMAIN p.Request = {"pred"} -> <<Shape(p.Request.pred)>>
              [] OTHER -> << >>]

\* the operators of the predicates and the types of the responses of a stub
StubShape(s) ==
  [ps |-> [j \in 1..Len(s.Predicates) |-> Shape(s.Predicates[j])],
   rs |-> [j \in 1..Len(s.Responses) |-> s.Responses[j].Type]]

\* the stub objects of an imposter object
WireStubsOf(b) == ArrField(Members(b), "stubs")

\* the decoded stub s has the predicates and responses of the stub object b,
\* one for one and in its order
StubFollowsWire(b, s) ==
  LET ps == ArrField(Members(b), "predicates")
      rs == ArrField(Members(b), "responses")
  IN /\ Len(s.Predicates) = Len(ps)
     /\ Len(s.Responses) = Len(rs)
     /\ \A j \in 1..Len(ps) : s.Predicates[j].Operator \in DOMAIN Members(ps[j])
     /\ \A j \in 1..Len(rs) :
          s.Responses[j].Type = "" \/ s.Responses[j].Type \in DOMAIN Members(rs[j])

\* C21: encoding and decoding keep the length and the order of the stubs, of
\* the predicates and responses of each stub and of the children of "and"
\* and "or": stub i of the output is the encoding of stub i, a decoded stub
\* follows its stub object one for one, and after a round trip the operators
\* and response types sit where they were.
C21_OrderPreserved ==
  /\ (pc \in {"encoded", "roundtrip"}) =>
       /\ Len(WireStubsOf(wire)) = Len(goval.Stubs)
       /\ \A i \in 1..Len(goval.Stubs) :
            WireStubsOf(wire)[i] = StubMarshalJSON(goval.Stubs[i]).json
  /\ (Decoded /\ out.err = NoErr) =>
       /\ Len(out.val.Stubs) = Len(WireStubsOf(wire))
       /\ \A i \in 1..Len(out.val.Stubs) : StubFollowsWire(WireStubsOf(wire)[i], out.val.Stubs[i])
  /\ (pc = "roundtrip" /\ out.err = NoErr) =>
       [i \in 1..Len(out.val.Stubs) |-> StubShape(out.val.Stubs[i])]
         = [i \in 1..Len(goval.Stubs) |-> StubShape(goval.Stubs[i])]

\* a stub with an "is" response followed by a "proxy" response came back
\* with the two in that order
C21_Witness ==
  /\ pc = "roundtrip"
  /\ out.err = NoErr
  /\ Len(goval.Stubs) = 1
  /\ StubShape(goval.Stubs[1]) = [ps |-> << >>, rs |-> <<"is", "proxy">>]
  /\ StubShape(out.val.Stubs[1]) = [ps |-> << >>, rs |-> <<"is", "proxy">>]

\* C16: when Imposter.UnmarshalJSON returns an error, the Imposter it was
\* called on is what it was before the call (here the zero Imposter): no
\* field has been assigned.
C16_FailedDecodeLeavesTarget ==
  (Decoded /\ out.err # NoErr) => out.val = ZeroImposter

\* the keys of the optional fields of the wire form
OptionalKeys ==
  {"name", "recordRequests", "allowCORS", "defaultResponse", "stubs", "predicates",
   "responses", "method", "path", "query", "headers", "body", "data", "requestFrom",
   "timestamp", "statusCode", "_mode", "_behaviors"}

EmptyJSON == {JNull, JStr(""), JArr(<< >>), JObj(EmptyMap)}

\* no optional key of the JSON tree, at any depth, has an empty value
RECURSIVE OmitsEmpty(_)
OmitsEmpty(j) ==
  CASE IsObj(j) ->
         \A k \in DOMAIN j.jobj :
           /\ k \in OptionalKeys => j.jobj[k] \notin EmptyJSON
           /\ OmitsEmpty(j.jobj[k])
    [] IsArr(j) -> \A i \in 1..Len(j.jarr) : OmitsEmpty(j.jarr[i])
    [] OTHER -> TRUE

\* C18: the JSON Imposter.MarshalJSON produces has no optional field with a
\* null, "", [] or {} value: unset and zero-valued fields are left out.
C18_OmitsZeroFields ==
  (pc \in {"encoded", "roundtrip"}) => OmitsEmpty(wire)

(***************************************************************************)
(* The REST transport (internal/rest) and the client built on it.          *)
(*                                                                         *)
(* An operation runs in three steps: the operation's own action encodes    *)
(* the input and builds the request; Do is the network call, answered by   *)
(* a server or failed by the transport; Return is the branch on the status *)
(* with the decoding of the body.  call keeps what the operation needs     *)
(* after the network call: the status it expects and the value it decodes  *)
(* into.  A response body is a JSON value, or BadBody for bytes that are   *)
(* not JSON.                                                                *)
(***************************************************************************)
StatusOK == 200
StatusCreated == 201

MethodGet == "GET"
MethodPost == "POST"
MethodPut == "PUT"
MethodDelete == "DELETE"

ErrMethod == "net/http: invalid method"
ErrTransport == "connection refused"
ErrDeadline == "context deadline exceeded"
ErrCanceled == "context canceled"
ErrTime == "parsing time"
PanicIndex == "index out of range [0] with length 0"

BadBody == [bad |-> TRUE]
NoBody == [nobody |-> TRUE]

\* a method http.NewRequest accepts: a token
\* the methods that are HTTP tokens, among those handed to NewRequest
TokenMethods == {MethodGet, MethodPost, MethodPut, MethodDelete, "PATCH", "post"}
ValidMethod(method) == method \in TokenMethods
\* http.NewRequest takes the empty method for GET
MethodOrGet(method) == IF method = "" THEN MethodGet ELSE method

\* a context.Context: whether it can be cancelled or has a deadline, and
\* its Err(), nil until it is done
Background == [cancellable |-> FALSE, err |-> NoErr]
WithTimeout == [cancellable |-> TRUE, err |-> NoErr]
Expired == [cancellable |-> TRUE, err |-> ErrDeadline]
Contexts == {Background, WithTimeout, Expired}

\* a *url.URL; RawQuery is kept as the url.Values it encodes
URL(scheme, host, path, q) == [Scheme |-> scheme, Host |-> host, Path |-> path, RawQuery |-> q]

\* the root of NewClient: nil, or the URL of a mountebank API
Roots == {NilValue, [url |-> URL("http", "mb.example:2525", "", EmptyMap)]}

\* NewClient and rest.NewClient: the base address of the client
NewClient(root) ==
  IF IsNil(root) THEN URL("http", "localhost:2525", "", EmptyMap) ELSE root.url

\* base.ResolveReference(&url.URL{Path: path}) for a rooted path: a new URL
\* with the scheme and host of base, and the path and (empty) query of the
\* reference
ResolveReference(base, path) == URL(base.Scheme, base.Host, path, EmptyMap)

\* a NewRequest that leaves the request with the background context
NewRequestWithoutContext(base, method, path, body, q) ==
  IF ~ValidMethod(MethodOrGet(method)) THEN [err |-> ErrMethod, req |-> NilValue]
  ELSE [err |-> NoErr,
        req |-> [Method |-> MethodOrGet(method),
                 URL |-> [ResolveReference(base, path) EXCEPT !.RawQuery = q],
                 Body |-> body,
                 Header |-> ("Accept" :> "application/json")
                            @@ (IF MethodOrGet(method) \in {MethodPost, MethodPut}
                                THEN "Content-Type" :> "application/json" ELSE EmptyMap),
                 Ctx |-> "background"]]

\* a transport that sets Content-Type whatever the method
NewRequestContentTypeAlways(base, method, path, body, q) ==
  IF ~ValidMethod(MethodOrGet(method)) THEN [err |-> ErrMethod, req |-> NilValue]
  ELSE [err |-> NoErr,
        req |-> [Method |-> MethodOrGet(method),
                 URL |-> [ResolveReference(base, path) EXCEPT !.RawQuery = q],
                 Body |-> body,
                 Header |-> ("Accept" :> "application/json")
                            @@ ("Content-Type" :> "application/json"),
                 Ctx |-> "ctx"]]

\* the request holds the caller's context (req.WithContext(ctx))
NewRequest(base, method, path, body, q) ==
  IF ~ValidMethod(MethodOrGet(method)) THEN [err |-> ErrMethod, req |-> NilValue]
  ELSE [err |-> NoErr,
        req |-> [Method |-> MethodOrGet(method),
                 URL |-> [ResolveReference(base, path) EXCEPT !.RawQuery = q],
                 Body |-> body,
                 Header |-> ("Accept" :> "application/json")
                            @@ (IF MethodOrGet(method) \in {MethodPost, MethodPut}
                                THEN "Content-Type" :> "application/json" ELSE EmptyMap),
                 Ctx |-> "ctx"]]

FormatBool(b) == IF b THEN "true" ELSE "false"

\* the envelope of server errors: [err, val], val the decoded entries
errorDTOs(b) ==
  LET f == Members(b)
      es == ArrField(f, "errors")
      bad == \/ b = BadBody
             \/ ~IsObj(b) /\ ~IsNull(b)
             \/ BadArr(f, "errors")
             \/ \E i \in 1..Len(es) :
                  \/ ~IsObj(es[i]) /\ ~IsNull(es[i])
                  \/ BadStr(Members(es[i]), "code") \/ BadStr(Members(es[i]), "message")
  IN IF bad THEN [err |-> ErrJSON, val |-> << >>]
     ELSE [err |-> NoErr,
           val |-> [i \in 1..Len(es) |->
                      [Code |-> StrField(Members(es[i]), "code"),
                       Message |-> StrField(Members(es[i]), "message")]]]

\* a decodeError that reports the last entry of the envelope
decodeErrorLastEntry(body) ==
  LET wrap == errorDTOs(body)
      n == Len(wrap.val)
  IN IF wrap.err # NoErr THEN [result |-> NilValue, err |-> wrap.err]
     ELSE IF n = 0 THEN [panic |-> PanicIndex]
     ELSE [result |-> NilValue, err |-> wrap.val[n].Code \o ": " \o wrap.val[n].Message]

\* what decodeError does to its caller: it returns an error, or panics
decodeError(body) ==
  LET wrap == errorDTOs(body)
  IN IF wrap.err # NoErr THEN [result |-> NilValue, err |-> wrap.err]
     ELSE IF Len(wrap.val) = 0 THEN [panic |-> PanicIndex]
     ELSE [result |-> NilValue, err |-> wrap.val[1].Code \o ": " \o wrap.val[1].Message]

\* imposterListWrapper: a fresh Imposter for every element
imposterList(b) ==
  LET f == Members(b)
      arr == ArrField(f, "imposters")
  IN IF b = BadBody \/ (~IsObj(b) /\ ~IsNull(b)) \/ BadArr(f, "imposters")
     THEN {[err |-> ErrJSON, val |-> << >>]}
     ELSE SeqOutcomes([i \in 1..Len(arr) |-> ImposterUnmarshalJSON(arr[i], ZeroImposter)])

ZeroConfig == [Version |-> "", Port |-> 0]

\* Config, of which the model keeps the version and the port option; every
\* other field is decoded the same way
configDTO(b) ==
  LET f == Members(b)
      o == Members(Get(f, "options"))
  IN IF b = BadBody \/ (~IsObj(b) /\ ~IsNull(b)) \/ BadStr(f, "version") \/ BadObj(f, "options")
        \/ BadNum(o, "port")
     THEN [err |-> ErrJSON, val |-> ZeroConfig]
     ELSE [err |-> NoErr, val |-> [Version |-> StrField(f, "version"), Port |-> NumField(o, "port")]]

Timestamps == {"2018-10-10T09:12:08.075Z"}

\* the wrapper of Logs; a timestamp is a time.Time and must parse
logList(b) ==
  LET f == Members(b)
      ls == ArrField(f, "logs")
      bad == \/ b = BadBody
             \/ ~IsObj(b) /\ ~IsNull(b)
             \/ BadArr(f, "logs")
             \/ \E i \in 1..Len(ls) :
                  \/ ~IsObj(ls[i]) /\ ~IsNull(ls[i])
                  \/ BadStr(Members(ls[i]), "level") \/ BadStr(Members(ls[i]), "message")
                  \/ BadStr(Members(ls[i]), "timestamp")
      badTime == \E i \in 1..Len(ls) :
                   /\ "timestamp" \in DOMAIN Members(ls[i])
                   /\ ~IsNull(Members(ls[i])["timestamp"])
                   /\ StrField(Members(ls[i]), "timestamp") \notin Timestamps
  IN IF bad THEN [err |-> ErrJSON, val |-> << >>]
     ELSE IF badTime THEN [err |-> ErrTime, val |-> << >>]
     ELSE [err |-> NoErr,
           val |-> [i \in 1..Len(ls) |->
                      [Level |-> StrField(Members(ls[i]), "level"),
                       Timestamp |-> StrField(Members(ls[i]), "timestamp"),
                       Message |-> StrField(Members(ls[i]), "message")]]]

\* DecodeResponseBody(body, v): the outcomes [err, val], val being what v
\* points to after the call; the body is closed whatever the outcome
DecodeResponseBody(body, v) ==
  CASE DOMAIN v = {"imp"} ->
         IF body = BadBody THEN {[err |-> ErrJSON, val |-> v]}
         ELSE {[err |-> o.err, val |-> [imp |-> o.val]] : o \in ImposterUnmarshalJSON(body, v.imp)}
    [] DOMAIN v = {"imps"} -> {[err |-> o.err, val |-> [imps |-> o.val]] : o \in imposterList(body)}
    [] DOMAIN v = {"cfg"} -> {[err |-> configDTO(body).err, val |-> [cfg |-> configDTO(body).val]]}
    [] OTHER -> {[err |-> logList(body).err, val |-> [logs |-> logList(body).val]]}

(***************************************************************************)
(* What callers pass and what servers answer.                              *)
(***************************************************************************)
Ports == {4545}
Indices == {-1, 0, 1}

UnsupportedStub == Stub(<<Cmp("equals", [other |-> "int"])>>, << >>)
AbsentRequestStub == Stub(<<Cmp("equals", NilValue)>>, << >>)

ClientStubs == {BasicStub("http"), UnsupportedStub, AbsentRequestStub}

ClientImposters ==
  {Imp("http", 4545, "imposter", TRUE, FALSE, NilValue, <<BasicStub("http")>>),
   Imp("tcp", 0, "", FALSE, TRUE, BasicResponse("tcp"), << >>),
   Imp("http", 4545, "", FALSE, FALSE, NilValue, <<UnsupportedStub>>)}

\* an imposter as the server reports it, creation-only members included
ServerImposter ==
  JObj(("protocol" :> JStr("http")) @@ ("port" :> JNum(4545)) @@ ("numberOfRequests" :> JNum(0))
       @@ ("recordRequests" :> JBool(FALSE)) @@ ("allowCORS" :> JBool(TRUE))
       @@ ("defaultResponse" :> JObj("statusCode" :> JNum(400)))
       @@ ("stubs" :> JArr(<<WireStub(<<WireLeafPredicate>>, <<WireIs>>)>>)))

ServerError(code, message) == JObj(("code" :> JStr(code)) @@ ("message" :> JStr(message)))

\* error envelopes with no, one and two entries
ServerErrors ==
  {JObj("errors" :> JArr(<< >>)),
   JObj("errors" :> JArr(<<ServerError("no such resource", "Try POSTing to /imposters first?")>>)),
   JObj("errors" :> JArr(<<ServerError("bad data", "'protocol' is a required field"),
                           ServerError("bad data", "invalid predicate")>>))}

ServerBodies ==
  ServerErrors
  \cup {JObj(EmptyMap), ServerImposter, BadBody,
        JObj(("protocol" :> JStr("udp")) @@ ("requests" :> JArr(<<JObj(EmptyMap)>>))),
        JObj("imposters" :> JArr(<<ServerImposter, JObj(EmptyMap)>>)),
        JObj(("version" :> JStr("2.1.0")) @@ ("options" :> JObj("port" :> JNum(2525)))),
        JObj("logs" :> JArr(<<JObj(("level" :> JStr("info")) @@ ("message" :> JStr("mountebank now taking orders"))
                                   @@ ("timestamp" :> JStr("2018-10-10T09:12:08.075Z")))>>)),
        JObj("logs" :> JArr(<<JObj("timestamp" :> JStr("yesterday"))>>))}

ServerStatuses == {StatusOK, StatusCreated, 400, 404}

(***************************************************************************)
(* The operations of Client.                                               *)
(***************************************************************************)
ImposterPath(port) == "/imposters/" \o ToString(port)

\* a Begin whose request is built in the URL of the client itself
BeginSharedURL(op, args, expect, v, method, path, body, q) ==
  /\ call' = [op |-> op, args |-> args, expect |-> expect, v |-> v,
               method |-> method, path |-> path, body |-> body, q |-> q]
  /\ LET r == NewRequest(baseURL, method, path, body.json, q)
     IN IF body.err # NoErr \/ r.err # NoErr
        THEN /\ ret' = [result |-> NilValue, err |-> IF body.err # NoErr THEN body.err ELSE r.err]
             /\ request' = NoResult
             /\ baseURL' = baseURL
             /\ pc' = "returned"
        ELSE /\ ret' = ret
             /\ request' = r.req
             /\ baseURL' = r.req.URL
             /\ pc' = "built"
  /\ UNCHANGED <<response, calls, closed, ctx, parked>>
  /\ UNCHANGED codecVars

\* the steps every operation takes before the network call: stop on an
\* encoding error, build the request, stop when it cannot be built
Begin(op, args, expect, v, method, path, body, q) ==
  /\ call' = [op |-> op, args |-> args, expect |-> expect, v |-> v,
               method |-> method, path |-> path, body |-> body, q |-> q]
  /\ LET r == NewRequest(baseURL, method, path, body.json, q)
     IN IF body.err # NoErr
        THEN /\ ret' = IF body.err = PanicNilType THEN [panic |-> PanicNilType]
                       ELSE [result |-> NilValue, err |-> body.err]
             /\ request' = NoResult
             /\ pc' = "returned"
        ELSE IF r.err # NoErr
        THEN /\ ret' = [result |-> NilValue, err |-> r.err]
             /\ request' = NoResult
             /\ pc' = "returned"
        ELSE /\ ret' = ret
             /\ request' = r.req
             /\ pc' = "built"
  /\ UNCHANGED <<response, calls, closed, ctx, baseURL, parked>>
  /\ UNCHANGED codecVars

\* the arguments of an operation that takes none but the context
NoArgs == << >>

None == [err |-> NoErr, json |-> NoBody]

Create ==
  /\ pc = "idle"
  /\ \E imp \in ClientImposters :
       Begin("Create", [imp |-> imp],
             StatusCreated, [imp |-> imp], MethodPost, "/imposters",
             ImposterMarshalJSON(imp), EmptyMap)

Imposter ==
  /\ pc = "idle"
  /\ \E port \in Ports, replay \in BOOLEAN :
       Begin("Imposter", [port |-> port, replay |-> replay],
             StatusOK, [imp |-> ZeroImposter], MethodGet, ImposterPath(port),
             None, "replayable" :> FormatBool(replay))

\* the body of AddStub: b is the encoded stub
\* a body that leaves out an index of zero
addStubDTOOmitZero(index, b) ==
  [err |-> b.err,
   json |-> JObj(MkObj({<<"stub", b.json>>} \cup Opt(index > 0, "index", JNum(index))))]

addStubDTO(index, b) ==
  [err |-> b.err,
   json |-> JObj(MkObj({<<"stub", b.json>>} \cup Opt(index >= 0, "index", JNum(index))))]

AddStub ==
  /\ pc = "idle"
  /\ \E port \in Ports, index \in Indices, stub \in ClientStubs :
       Begin("AddStub", [port |-> port, index |-> index, stub |-> stub],
             StatusOK, [imp |-> ZeroImposter], MethodPost,
             ImposterPath(port) \o "/stubs", addStubDTO(index, StubMarshalJSON(stub)), EmptyMap)

OverwriteStub ==
  /\ pc = "idle"
  /\ \E port \in Ports, index \in Indices, stub \in ClientStubs :
       Begin("OverwriteStub", [port |-> port, index |-> index, stub |-> stub],
             StatusOK, [imp |-> ZeroImposter], MethodPut,
             ImposterPath(port) \o "/stubs/" \o ToString(index), StubMarshalJSON(stub), EmptyMap)

\* an object with the one member key, the list of the encoded values bs
listDTO(key, bs) ==
  [err |-> FirstErr(bs), json |-> JObj(key :> JArr([i \in 1..Len(bs) |-> bs[i].json]))]

OverwriteAllStubs ==
  /\ pc = "idle"
  /\ \E port \in Ports, stubs \in SeqsUpTo(ClientStubs, MaxStubs) :
       Begin("OverwriteAllStubs", [port |-> port, stubs |-> stubs],
             StatusOK, [imp |-> ZeroImposter], MethodPut,
             ImposterPath(port) \o "/stubs",
             listDTO("stubs", [i \in 1..Len(stubs) |-> StubMarshalJSON(stubs[i])]), EmptyMap)

RemoveStub ==
  /\ pc = "idle"
  /\ \E port \in Ports, index \in Indices :
       Begin("RemoveStub", [port |-> port, index |-> index],
             StatusOK, [imp |-> ZeroImposter], MethodDelete,
             ImposterPath(port) \o "/stubs/" \o ToString(index), None, EmptyMap)

\* a Delete that waits for the status of a creation
DeleteExpectingCreated ==
  /\ pc = "idle"
  /\ \E port \in Ports, replay \in BOOLEAN :
       Begin("Delete", [port |-> port, replay |-> replay],
             StatusCreated, [imp |-> ZeroImposter], MethodDelete, ImposterPath(port),
             None, "replayable" :> FormatBool(replay))

Delete ==
  /\ pc = "idle"
  /\ \E port \in Ports, replay \in BOOLEAN :
       Begin("Delete", [port |-> port, replay |-> replay],
             StatusOK, [imp |-> ZeroImposter], MethodDelete, ImposterPath(port),
             None, "replayable" :> FormatBool(replay))

DeleteRequests ==
  /\ pc = "idle"
  /\ \E port \in Ports :
       Begin("DeleteRequests", [port |-> port],
             StatusOK, [imp |-> ZeroImposter], MethodDelete,
             ImposterPath(port) \o "/savedProxyResponses", None, EmptyMap)

Overwrite ==
  /\ pc = "idle"
  /\ \E imps \in SeqsUpTo(ClientImposters, MaxStubs) :
       Begin("Overwrite", [imps |-> imps],
             StatusOK, [imps |-> << >>], MethodPut, "/imposters",
             listDTO("imposters", [i \in 1..Len(imps) |-> ImposterMarshalJSON(imps[i])]),
             EmptyMap)

Imposters ==
  /\ pc = "idle"
  /\ \E replay \in BOOLEAN :
       Begin("Imposters", [replay |-> replay],
             StatusOK, [imps |-> << >>], MethodGet, "/imposters",
             None, "replayable" :> FormatBool(replay))

DeleteAll ==
  /\ pc = "idle"
  /\ \E replay \in BOOLEAN :
       Begin("DeleteAll", [replay |-> replay],
             StatusOK, [imps |-> << >>], MethodDelete, "/imposters",
             None, "replayable" :> FormatBool(replay))

Config ==
  /\ pc = "idle"
  /\ Begin("Config", NoArgs,
             StatusOK, [cfg |-> ZeroConfig], MethodGet, "/config", None, EmptyMap)

\* a query that sends a bound only when it is positive
logsQueryPositive(start, end) ==
  (IF start > 0 THEN "startIndex" :> ToString(start) ELSE EmptyMap)
    @@ (IF end > 0 THEN "endIndex" :> ToString(end) ELSE EmptyMap)

\* vs, the url.Values of Logs
logsQuery(start, end) ==
  (IF start >= 0 THEN "startIndex" :> ToString(start) ELSE EmptyMap)
    @@ (IF end >= 0 THEN "endIndex" :> ToString(end) ELSE EmptyMap)

Logs ==
  /\ pc = "idle"
  /\ \E start \in Indices, end \in Indices :
       LET vs == logsQuery(start, end)
       IN Begin("Logs", [start |-> start, end |-> end],
             StatusOK, [logs |-> << >>], MethodGet, "/logs", None, vs)

\* Err() of the context the request holds
requestErr == IF request.Ctx = "ctx" THEN ctx.err ELSE NoErr

\* the network call is issued
Do ==
  /\ pc = "built"
  /\ calls' = calls + 1
  /\ pc' = "inflight"
  /\ UNCHANGED <<call, request, response, closed, ret, ctx, baseURL, parked>>
  /\ UNCHANGED codecVars

\* the deadline of the caller's context passes, or the caller cancels it,
\* while the network call is in flight
Expire ==
  /\ pc = "inflight"
  /\ ctx.cancellable /\ ctx.err = NoErr
  /\ \E err \in {ErrDeadline, ErrCanceled} : ctx' = [ctx EXCEPT !.err = err]
  /\ UNCHANGED <<pc, call, request, response, calls, closed, ret, baseURL, parked>>
  /\ UNCHANGED codecVars

\* Do returns the response of the server
DoAnswered ==
  /\ pc = "inflight"
  /\ requestErr = NoErr
  /\ \E status \in ServerStatuses, body \in ServerBodies :
       response' = [StatusCode |-> status, Body |-> body]
  /\ pc' = "responded"
  /\ UNCHANGED <<call, request, calls, closed, ret, ctx, baseURL, parked>>
  /\ UNCHANGED codecVars

\* an operation that issues the call again after an error of the transport
DoFailedRetrying ==
  /\ pc = "inflight"
  /\ requestErr = NoErr
  /\ IF calls < 2
     THEN pc' = "built" /\ ret' = ret
     ELSE pc' = "returned" /\ ret' = [result |-> NilValue, err |-> ErrTransport]
  /\ UNCHANGED <<call, request, response, calls, closed, ctx, baseURL, parked>>
  /\ UNCHANGED codecVars

\* Do returns an error of the transport, which the operation returns
DoFailed ==
  /\ pc = "inflight"
  /\ requestErr = NoErr
  /\ ret' = [result |-> NilValue, err |-> ErrTransport]
  /\ pc' = "returned"
  /\ UNCHANGED <<call, request, response, calls, closed, ctx, baseURL, parked>>
  /\ UNCHANGED codecVars

\* the context of the request is done: the transport gives the call up and
\* Do returns an error wrapping the context's, which the operation returns
DoAborted ==
  /\ pc = "inflight"
  /\ requestErr # NoErr
  /\ ret' = [result |-> NilValue, err |-> requestErr]
  /\ pc' = "returned"
  /\ UNCHANGED <<call, request, response, calls, closed, ctx, baseURL, parked>>
  /\ UNCHANGED codecVars

\* what an operation returns for a response: the branch on the status code
statusBranch(expect, v, resp) ==
  IF resp.StatusCode = expect
  THEN {IF o.err # NoErr THEN [result |-> NilValue, err |-> o.err]
        ELSE [result |-> o.val, err |-> NoErr] : o \in DecodeResponseBody(resp.Body, v)}
  ELSE {decodeError(resp.Body)}

\* a Return whose error path leaves the body open
ReturnLeaking ==
  /\ pc = "responded"
  /\ ret' \in statusBranch(call.expect, call.v, response)
  /\ closed' = IF response.StatusCode = call.expect THEN closed + 1 ELSE closed
  /\ pc' = "returned"
  /\ UNCHANGED <<call, request, response, calls, ctx, baseURL, parked>>
  /\ UNCHANGED codecVars

\* the branch on the status code, to the end of the operation; the body is
\* closed by DecodeResponseBody on either side
Return ==
  /\ pc = "responded"
  /\ ret' \in statusBranch(call.expect, call.v, response)
  /\ closed' = closed + 1
  /\ pc' = "returned"
  /\ UNCHANGED <<call, request, response, calls, ctx, baseURL, parked>>
  /\ UNCHANGED codecVars

\* the locals of the goroutine that is running
Locals ==
  [pc |-> pc, call |-> call, request |-> request, response |-> response,
   calls |-> calls, closed |-> closed, ret |-> ret, ctx |-> ctx]

\* the locals of a goroutine that has not called the client yet
IdleLocals ==
  [pc |-> "idle", call |-> NoResult, request |-> NoResult, response |-> NoResult,
   calls |-> 0, closed |-> 0, ret |-> NoResult, ctx |-> Background]

\* the scheduler runs the other goroutine
Yield ==
  /\ parked # NoResult
  /\ pc' = parked.pc /\ call' = parked.call /\ request' = parked.request
  /\ response' = parked.response /\ calls' = parked.calls /\ closed' = parked.closed
  /\ ret' = parked.ret /\ ctx' = parked.ctx
  /\ parked' = Locals
  /\ UNCHANGED baseURL
  /\ UNCHANGED codecVars

(***************************************************************************)
(* Specification SpecClient: one operation of a Client, from the call to   *)
(* its return.  SpecClientLive adds what the transport guarantees: a call  *)
(* whose context is done is given up.                                      *)
(***************************************************************************)
InitClient ==
  /\ pc = "idle"
  /\ goval = ZeroImposter /\ wire = JNull /\ out = NoResult
  /\ call = NoResult /\ request = NoResult /\ response = NoResult
  /\ calls = 0 /\ closed = 0 /\ ret = NoResult
  /\ ctx \in Contexts
  /\ baseURL \in {NewClient(root) : root \in Roots}
  /\ parked = NoResult

NextClient ==
  \/ Create \/ Imposter \/ AddStub \/ OverwriteStub \/ OverwriteAllStubs \/ RemoveStub
  \/ Delete \/ DeleteRequests \/ Overwrite \/ Imposters \/ DeleteAll \/ Config \/ Logs
  \/ Do \/ Expire \/ DoAnswered \/ DoFailed \/ DoAborted \/ Return

SpecClient == InitClient /\ [][NextClient]_vars

SpecClientLive == SpecClient /\ WF_vars(DoAborted)

(***************************************************************************)
(* Specification SpecConcurrent: two goroutines call one Client, each one  *)
(* operation, their steps interleaved in every order.                      *)
(***************************************************************************)
InitConcurrent ==
  /\ pc = "idle"
  /\ goval = ZeroImposter /\ wire = JNull /\ out = NoResult
  /\ call = NoResult /\ request = NoResult /\ response = NoResult
  /\ calls = 0 /\ closed = 0 /\ ret = NoResult
  /\ ctx = Background
  /\ baseURL = NewClient(NilValue)
  /\ parked = IdleLocals

NextConcurrent ==
  \/ Create \/ Imposter \/ Config
  \/ Do \/ DoAnswered \/ DoFailed \/ Return \/ Yield

SpecConcurrent == InitConcurrent /\ [][NextConcurrent]_vars

(***************************************************************************)
(* Properties of SpecClient.                                               *)
(***************************************************************************)
Answered == pc = "returned" /\ response # NoResult

\* a JSON object with no "errors" member, a null one or an empty array
EmptyEnvelope(b) ==
  /\ IsObj(b)
  /\ \/ "errors" \notin DOMAIN b.jobj
     \/ IsNull(b.jobj["errors"])
     \/ b.jobj["errors"] = JArr(<< >>)

\* C6: when the status is not the expected one and the body is an error
\* envelope with no entries, the operation returns a nil result and a non-nil
\* error; it does not crash on the missing first entry.
C6_EmptyEnvelopeIsAnError ==
  (Answered /\ response.StatusCode # call.expect /\ EmptyEnvelope(response.Body)) =>
    /\ DOMAIN ret = {"result", "err"}
    /\ IsNil(ret.result)
    /\ ret.err # NoErr

\* the server answered Delete with 200 and an empty imposter object
DeletedNothing ==
  /\ Answered
  /\ call.op = "Delete"
  /\ response.StatusCode = StatusOK
  /\ response.Body = JObj(EmptyMap)

\* C9: when the server answers Delete with status 200 and an empty imposter
\* object, Delete returns a non-nil Imposter equal to the zero-valued
\* Imposter and a nil error.
C9_DeleteOfNothing ==
  DeletedNothing => ret = [result |-> [imp |-> ZeroImposter], err |-> NoErr]

\* Delete returned the zero Imposter for an empty object, the body closed
C9_Witness ==
  /\ DeletedNothing
  /\ request.Method = MethodDelete
  /\ calls = 1 /\ closed = 1
  /\ ret = [result |-> [imp |-> ZeroImposter], err |-> NoErr]

\* the entries of the error envelope the server sent
envelope == errorDTOs(response.Body)

\* the outcomes of decoding the body into the value of the operation
decoded == DecodeResponseBody(response.Body, call.v)

\* C11: when the status is the one the operation expects (201 for Create,
\* 200 for the others) and the body decodes, the result is the decoded value
\* and the error is nil; for any other status, with an error envelope that
\* has entries, the result is nil and the error reads "<code>: <message>" of
\* the first entry.
C11_StatusBranch ==
  Answered =>
    /\ call.expect = (IF call.op = "Create" THEN StatusCreated ELSE StatusOK)
    /\ (response.StatusCode = call.expect /\ \A o \in decoded : o.err = NoErr) =>
         /\ ret.err = NoErr
         /\ ret.result \in {o.val : o \in decoded}
    /\ (response.StatusCode # call.expect /\ envelope.err = NoErr /\ Len(envelope.val) > 0) =>
         ret = [result |-> NilValue,
                err |-> envelope.val[1].Code \o ": " \o envelope.val[1].Message]

\* an operation other than Create was answered 201 with an envelope of two
\* entries and returned the first of them
C11_Witness ==
  /\ Answered
  /\ call.op = "Imposter"
  /\ response.StatusCode = StatusCreated
  /\ envelope.err = NoErr /\ Len(envelope.val) = 2
  /\ ret = [result |-> NilValue, err |-> "bad data: 'protocol' is a required field"]

\* C12: the network call of an operation is issued at most once: not at all
\* when the input cannot be encoded or the request cannot be built, once
\* otherwise, and never again after a failure of the transport, of the
\* decoding or one the server reported.
C12_OneNetworkCall ==
  /\ calls <= 1
  /\ pc \in {"idle", "built"} => calls = 0
  /\ pc \in {"inflight", "responded"} => calls = 1
  /\ pc = "returned" => calls = (IF request = NoResult THEN 0 ELSE 1)

\* the operation returned the error of the transport after its one call
C12_Witness ==
  /\ pc = "returned"
  /\ request # NoResult /\ response = NoResult
  /\ ret = [result |-> NilValue, err |-> ErrTransport]
  /\ calls = 1

\* C13: when the network call returned a response, the body is closed once
\* when the operation returns, whatever the status and whether or not the
\* body or the error envelope decodes; it is not closed before, nor when
\* there is no response.
C13_BodyClosedOnce ==
  /\ pc = "returned" => closed = (IF response = NoResult THEN 0 ELSE 1)
  /\ pc # "returned" => closed = 0

\* an unexpected status with a body that is not JSON: the operation returned
\* the decoding error of the envelope, the body closed
C13_Witness ==
  /\ Answered
  /\ response.StatusCode # call.expect
  /\ response.Body = BadBody
  /\ ret = [result |-> NilValue, err |-> ErrJSON]
  /\ closed = 1

\* C14: when the caller's context is done while the network call is in
\* flight, the operation ends, with a nil result and the error of the
\* context.
C14_DeadlineAborts ==
  (pc = "inflight" /\ ctx.err # NoErr)
    ~> (pc = "returned" /\ ret = [result |-> NilValue, err |-> ctx.err])

\* the context was cancelled in flight and the operation returned its error
C14_Witness ==
  /\ pc = "returned"
  /\ calls = 1 /\ response = NoResult
  /\ ctx = [cancellable |-> TRUE, err |-> ErrCanceled]
  /\ ret = [result |-> NilValue, err |-> ErrCanceled]

\* the base address of a client built without a root
RootURL == NewClient(NilValue)

\* the request of a goroutine is the one its own arguments give
OwnRequest(l) ==
  l.request # NoResult =>
    l.request = NewRequest(RootURL, l.call.method, l.call.path, l.call.body.json, l.call.q).req

\* what a goroutine returns is what its own response gives
OwnResult(l) ==
  (l.pc = "returned" /\ l.response # NoResult) =>
    l.ret \in statusBranch(l.call.expect, l.call.v, l.response)

\* C15: with two operations running concurrently on one Client, in any
\* interleaving, the request and the result of each depend on its own
\* arguments and its own response only, and the base address of the client
\* stays what it was at construction.
C15_NoSharedWrites ==
  /\ baseURL = RootURL
  /\ \A l \in {Locals, parked} : OwnRequest(l) /\ OwnResult(l)

\* both goroutines have returned, one from a Create that succeeded and one
\* from an Imposter the server refused
C15_Witness ==
  /\ pc = "returned" /\ parked.pc = "returned"
  /\ call.op = "Create" /\ parked.call.op = "Imposter"
  /\ calls = 1 /\ parked.calls = 1
  /\ response # NoResult /\ parked.response # NoResult
  /\ response.StatusCode = StatusCreated /\ response.Body = ServerImposter
  /\ DOMAIN ret = {"result", "err"} /\ ret.err = NoErr
  /\ parked.response.StatusCode = 404
  /\ parked.ret = [result |-> NilValue, err |-> "no such resource: Try POSTing to /imposters first?"]
  /\ baseURL = RootURL

\* the fields of an Imposter that only a creation sends
CreationOnly(imp) == <<imp.RecordRequests, imp.AllowCORS, imp.DefaultResponse>>

\* C17: Imposter.UnmarshalJSON leaves RecordRequests, AllowCORS and
\* DefaultResponse of its receiver as they were, whatever the body holds and
\* whether or not it fails; so Create returns them as the caller gave them,
\* and Imposter and Delete return them unset.
C17_CreationOnlyFields ==
  (Answered /\ DOMAIN call.v = {"imp"} /\ response.Body # BadBody) =>
    /\ \A o \in ImposterUnmarshalJSON(response.Body, call.v.imp) :
         CreationOnly(o.val) = CreationOnly(call.v.imp)
    /\ (DOMAIN ret = {"result", "err"} /\ ret.err = NoErr) =>
         /\ call.op = "Create" => CreationOnly(ret.result.imp) = CreationOnly(call.v.imp)
         /\ call.op \in {"Imposter", "Delete"} =>
              CreationOnly(ret.result.imp) = <<FALSE, FALSE, NilValue>>

\* Create of an imposter that records requests, answered with an imposter
\* whose members say otherwise, returned the fields of the caller
C17_Witness ==
  /\ Answered
  /\ call.op = "Create"
  /\ call.v.imp.RecordRequests /\ ~call.v.imp.AllowCORS
  /\ response.StatusCode = StatusCreated /\ response.Body = ServerImposter
  /\ DOMAIN ret = {"result", "err"} /\ ret.err = NoErr
  /\ CreationOnly(ret.result.imp) = <<TRUE, FALSE, NilValue>>

\* C24: DeleteRequests(port) issues a DELETE on /imposters/{port}/requests,
\* the recorded requests of the imposter, without query parameters, and on
\* status 200 returns the decoded Imposter.
C24_DeleteRequestsPath ==
  (call # NoResult /\ call.op = "DeleteRequests" /\ request # NoResult) =>
    /\ request.Method = MethodDelete
    /\ request.URL.Path = "/imposters/" \o ToString(call.args.port) \o "/requests"
    /\ request.URL.RawQuery = EmptyMap
    /\ (Answered /\ response.StatusCode = StatusOK /\ DOMAIN ret = {"result", "err"}
          /\ ret.err = NoErr) => DOMAIN ret.result = {"imp"}

\* the query parameters that Logs(start, end) is to send
BoundsSent(start, end) ==
  [k \in {b \in {"startIndex", "endIndex"} :
            (b = "startIndex" /\ start >= 0) \/ (b = "endIndex" /\ end >= 0)} |->
     ToString(IF k = "startIndex" THEN start ELSE end)]

\* C25: the request of Logs(start, end) carries startIndex exactly when
\* start >= 0 and endIndex exactly when end >= 0, each with the decimal
\* value of its argument; with two negative bounds it carries no parameter.
C25_LogsBounds ==
  (call # NoResult /\ call.op = "Logs" /\ request # NoResult) =>
    /\ request.URL.Path = "/logs"
    /\ request.URL.RawQuery = BoundsSent(call.args.start, call.args.end)
    /\ (call.args.start < 0 /\ call.args.end < 0) => request.URL.RawQuery = EmptyMap

\* Logs(0, -1) sent startIndex=0 and nothing else
C25_Witness ==
  /\ call # NoResult /\ call.op = "Logs"
  /\ call.args = [start |-> 0, end |-> -1]
  /\ pc = "returned" /\ calls = 1
  /\ request.URL.RawQuery = ("startIndex" :> "0")

\* C26: the body of AddStub(port, index, stub) is an object that holds the
\* encoded stub under "stub" and holds "index", with the value of the
\* argument, exactly when index >= 0.
C26_AddStubBody ==
  (call # NoResult /\ call.op = "AddStub" /\ request # NoResult) =>
    /\ request.Method = MethodPost
    /\ request.URL.Path = "/imposters/" \o ToString(call.args.port) \o "/stubs"
    /\ IsObj(request.Body)
    /\ DOMAIN request.Body.jobj = {"stub"} \cup (IF call.args.index >= 0 THEN {"index"} ELSE {})
    /\ request.Body.jobj["stub"] = StubMarshalJSON(call.args.stub).json
    /\ call.args.index >= 0 => request.Body.jobj["index"] = JNum(call.args.index)

\* AddStub at index 0 sent "index": 0 beside the stub
C26_Witness ==
  /\ call # NoResult /\ call.op = "AddStub"
  /\ call.args.index = 0 /\ call.args.stub = BasicStub("http")
  /\ pc = "returned" /\ calls = 1
  /\ request.Body = JObj(("stub" :> StubMarshalJSON(BasicStub("http")).json) @@ ("index" :> JNum(0)))

(***************************************************************************)
(* Specification SpecTransport: rest.Client.NewRequest called with the      *)
(* methods, paths, bodies and query values of any caller.                  *)
(***************************************************************************)
InvalidMethods == {"bad method", "(GET)"}
TransportMethods == TokenMethods \cup InvalidMethods \cup {""}
TransportPaths == {"", "foo", "/imposters"}
TransportBodies == {NoBody, JObj(EmptyMap)}
TransportQueries == {EmptyMap, "replayable" :> "true"}

InitTransport == InitClient

CallNewRequest ==
  /\ pc = "idle"
  /\ \E method \in TransportMethods, path \in TransportPaths,
        body \in TransportBodies, q \in TransportQueries :
       LET r == NewRequest(baseURL, method, path, body, q)
       IN /\ call' = [op |-> "NewRequest",
                      args |-> [method |-> method, path |-> path, body |-> body, q |-> q]]
          /\ request' = IF r.err = NoErr THEN r.req ELSE NoResult
          /\ ret' = [result |-> r.req, err |-> r.err]
  /\ pc' = "returned"
  /\ UNCHANGED <<response, calls, closed, ctx, baseURL, parked>>
  /\ UNCHANGED codecVars

NextTransport == CallNewRequest

SpecTransport == InitTransport /\ [][NextTransport]_vars

\* C23: every request NewRequest builds has Accept: application/json, and has
\* Content-Type: application/json exactly when its method is POST or PUT;
\* an invalid method gives an error and no request.
C23_TransportHeaders ==
  (pc = "returned" /\ call.op = "NewRequest") =>
    /\ call.args.method \in InvalidMethods => ret.err # NoErr /\ ret.result = NilValue
    /\ ret.err = NoErr =>
         /\ ret.result.Header["Accept"] = "application/json"
         /\ ("Content-Type" \in DOMAIN ret.result.Header)
              <=> (ret.result.Method \in {MethodPost, MethodPut})
         /\ DOMAIN ret.result.Header \subseteq {"Accept", "Content-Type"}
         /\ \A h \in DOMAIN ret.result.Header : ret.result.Header[h] = "application/json"
         /\ ret.result.Method \in {MethodGet, MethodDelete} =>
              DOMAIN ret.result.Header = {"Accept"}

\* a DELETE with a body was built with the Accept header alone
C23_Witness ==
  /\ pc = "returned" /\ call.op = "NewRequest"
  /\ call.args.method = MethodDelete /\ call.args.body = JObj(EmptyMap)
  /\ ret.err = NoErr
  /\ ret.result.Header = ("Accept" :> "application/json")

\* a Request that Predicate.MarshalJSON has no case for, in p or below it
RECURSIVE Unsupported(_)
Unsupported(p) ==
  CASE DOMAIN p.Request \in {{"nil"}, {"other"}} -> TRUE
    [] DOMAIN p.Request = {"preds"} ->
         \E i \in 1..Len(p.Request.preds) : Unsupported(p.Request.preds[i])
    [] DOMAIN p.Request = {"pred"} -> Unsupported(p.Request.pred)
    [] OTHER -> FALSE

\* C29: encoding a Predicate whose Request is neither a payload, a predicate
\* list nor a string, a nil Request included, returns the "unsupported
\* predicate request type" error and no output; the encoder never panics.
C29_UnsupportedRequestType ==
  /\ pc # "panicked"
  /\ (pc \in {"encoded", "failed", "roundtrip"} /\ Unsupported(goval)) =>
       pc = "failed" /\ out.err = ErrPredicateRequestType /\ wire = JNull

====
